---- MODULE Spec2Model ----
(***************************************************************************)
(* A model of chat-ffs: the slug/namer (fs_generator.slugify), the         *)
(* namespace projector (fs_generator.generate_fs_json), the Format-A       *)
(* parser (providers/claude.py) and the Format-B linearization.            *)
(*                                                                         *)
(* Text is a sequence of characters; a character is a one-element atom     *)
(* written as a string ("a", "-", ...).  Four atoms stand for non-ASCII    *)
(* code points: "E_acute" (U+00C9), "comb_acute" (U+0301), "cjk" (a CJK    *)
(* ideograph, no decomposition) and "fi_lig" (U+FB01).                     *)
(***************************************************************************)
EXTENDS Integers, Sequences, FiniteSets, TLC

VARIABLES
    \* slugify(title, max_len) applied once and then to its own result
    title, max_len, slug, slug2, pcSlug,
    \* generate_fs_json(conversations, projects, memories): its arguments,
    \* the tree fs and the table dirname_counts it builds, the dirname given
    \* to each conversation so far, and its position; the number of the call
    \* (the function may be called again on the same arguments) and the tree
    \* the first call returned
    conversations, projects, memories, fs, dirname_counts, dirnames, pcGen,
    run, fs_first,
    \* ClaudeProvider.parse(zip_path): the archive at zip_path, the list of
    \* conversations built so far, the loop index, the position, and how the
    \* call ended ("returned", or the name of the exception it raised)
    archive, parsed, pIdx, pcParse, outcome,
    \* the Format-B linearization of one conversation: its graph (node
    \* identifier -> node record), the node the traversal is at, the payloads
    \* collected so far, the message sequence returned, and the position
    mapping, node_id, linear, linearized, pcLin,
    \* ClaudeProvider.detect(zip_path) on the archive: what it returned, and
    \* how the call ended ("returned", or the name of the exception raised)
    detected, detect_outcome,
    \* _write_fs_recursive(fs, outdir): the directory tree on disk under
    \* outdir, the two counts returned, and the position
    disk, files_written, dirs_created, pcWrite,
    \* the commands mount and export (cli.py): the command run, the provider
    \* (the option given, then the provider selected), the mountpoint
    \* ("absent", "exists", "created"), the temporary directory of
    \* create_temp_dir ("none", "exists", "removed"), the number of calls of
    \* the external mounter, and the position
    command, provider, mountpoint, temp_dir, ffs_calls, pcCmd,
    \* ClaudeProvider.parse_projects(zip_path) and parse_memories(zip_path):
    \* how each call ended (not called, a value returned, None returned, or
    \* the exception raised)
    projects_result, memories_result

slugVars == <<title, max_len, slug, slug2, pcSlug>>
genVars ==
    <<conversations, projects, memories, fs, dirname_counts, dirnames, pcGen, run, fs_first>>

parseVars == <<archive, parsed, pIdx, pcParse, outcome>>

linVars == <<mapping, node_id, linear, linearized, pcLin>>

detVars == <<detected, detect_outcome>>

writeVars == <<disk, files_written, dirs_created, pcWrite>>

cmdVars == <<command, provider, mountpoint, temp_dir, ffs_calls, pcCmd>>

projVars == <<projects_result, memories_result>>

vars == <<slugVars, genVars, parseVars, linVars, detVars, writeVars, cmdVars, projVars>>

-----------------------------------------------------------------------------
(* Bounds of the model *)

MaxTitleLen == 5      \* longest title given to slugify on its own
MaxLenArg == 9        \* largest max_len given to slugify on its own
MaxConvs == 3         \* most conversations given to generate_fs_json
MaxMsgs == 3          \* most entries of one chat_messages array
MaxElems == 3         \* most elements of conversations.json, most ZIP entries
MaxProjects == 3      \* most projects given to generate_fs_json
MaxDocs == 3          \* most documents of one project
MaxNodes == 4         \* most nodes of one Format-B edit-history graph

-----------------------------------------------------------------------------
(* Characters and strings *)

LowerSeq == <<"a","b","c","d","e","f","g","h","i","j","k","l","m",
              "n","o","p","q","r","s","t","u","v","w","x","y","z">>
UpperSeq == <<"A","B","C","D","E","F","G","H","I","J","K","L","M",
              "N","O","P","Q","R","S","T","U","V","W","X","Y","Z">>
DigitSeq == <<"0","1","2","3","4","5","6","7","8","9">>

Range(s) == {s[i] : i \in DOMAIN s}

LowerLetters == Range(LowerSeq)
UpperLetters == Range(UpperSeq)
Digits == Range(DigitSeq)

\* the characters str.encode("ascii", "ignore") keeps
IsAscii(c) ==
    c \in LowerLetters \cup UpperLetters \cup Digits \cup {" ", "-", "_", ".", "!", "/", ":", "+"}

\* the character class [a-z0-9] of the two regular expressions
IsAlnum(c) == c \in LowerLetters \cup Digits

\* unicodedata.normalize("NFKD", c) of one character
NFKDChar(c) ==
    CASE c = "E_acute" -> <<"E", "comb_acute">>
      [] c = "fi_lig"  -> <<"f", "i">>
      [] OTHER         -> <<c>>

RECURSIVE NFKD(_)
NFKD(s) == IF s = <<>> THEN <<>> ELSE NFKDChar(Head(s)) \o NFKD(Tail(s))

EncodeAsciiIgnore(s) == SelectSeq(s, IsAscii)

LowerChar(c) ==
    IF c \in UpperLetters
    THEN LowerSeq[CHOOSE i \in DOMAIN UpperSeq : UpperSeq[i] = c]
    ELSE c

LowerStr(s) == [i \in DOMAIN s |-> LowerChar(s[i])]

\* re.sub(r"[^a-z0-9]+", "-", s): every maximal run of characters outside
\* [a-z0-9] becomes one hyphen
RECURSIVE SubNonAlnum(_)
SubNonAlnum(s) ==
    IF s = <<>> THEN <<>>
    ELSE IF IsAlnum(Head(s)) THEN <<Head(s)>> \o SubNonAlnum(Tail(s))
    ELSE IF Len(s) > 1 /\ ~IsAlnum(s[2]) THEN SubNonAlnum(Tail(s))
    ELSE <<"-">> \o SubNonAlnum(Tail(s))

\* s.strip("-")
RECURSIVE LStripHyphen(_)
LStripHyphen(s) ==
    IF s # <<>> /\ Head(s) = "-" THEN LStripHyphen(Tail(s)) ELSE s

RECURSIVE RStripHyphen(_)
RStripHyphen(s) ==
    IF s # <<>> /\ s[Len(s)] = "-"
    THEN RStripHyphen(SubSeq(s, 1, Len(s) - 1))
    ELSE s

StripHyphen(s) == RStripHyphen(LStripHyphen(s))

\* re.sub(r"-+", "-", s)
RECURSIVE CollapseHyphens(_)
CollapseHyphens(s) ==
    IF s = <<>> THEN <<>>
    ELSE IF Head(s) = "-" /\ Len(s) > 1 /\ s[2] = "-"
         THEN CollapseHyphens(Tail(s))
         ELSE <<Head(s)>> \o CollapseHyphens(Tail(s))

\* the Python slice s[:n], n of either sign
SliceTo(s, n) ==
    IF n >= 0
    THEN SubSeq(s, 1, IF n < Len(s) THEN n ELSE Len(s))
    ELSE SubSeq(s, 1, IF Len(s) + n > 0 THEN Len(s) + n ELSE 0)

Max(S) == CHOOSE x \in S : \A y \in S : y <= x

\* (a variant of the next definition that keeps the whole string)
RSplitKeepAll(s) == s

\* s.rsplit("-", 1)[0]: what precedes the last hyphen, or all of s
RSplitHyphenFirst(s) ==
    LET HyphenAt == {i \in DOMAIN s : s[i] = "-"}
    IN  IF HyphenAt = {} THEN s ELSE SubSeq(s, 1, Max(HyphenAt) - 1)

Untitled == <<"u","n","t","i","t","l","e","d">>

\* lines 26-36 of slugify: the slug before truncation and fallback
NormalizedSlug(t) ==
    CollapseHyphens(StripHyphen(SubNonAlnum(LowerStr(EncodeAsciiIgnore(NFKD(t))))))

\* lines 38-39
Truncate(s, n) == IF Len(s) > n THEN RSplitHyphenFirst(SliceTo(s, n)) ELSE s

\* lines 41-42
Fallback(s) == IF s = <<>> THEN Untitled ELSE s

slugify(t, n) == Fallback(Truncate(NormalizedSlug(t), n))

-----------------------------------------------------------------------------
(* The namespace projector: names *)

DEFAULT_MAX_LEN == 50

UNDERSCORE == <<"_">>
METADATA_JSON == <<"_","m","e","t","a","d","a","t","a",".","j","s","o","n">>
INDEX_JSON == <<"_","i","n","d","e","x",".","j","s","o","n">>
PROJECTS_DIR == <<"_","p","r","o","j","e","c","t","s">>
MEMORIES_DIR == <<"_","m","e","m","o","r","i","e","s">>
DOT_MD == <<".","m","d">>

\* str(n) of a non-negative integer
RECURSIVE DecStr(_)
DecStr(n) ==
    IF n < 10 THEN <<DigitSeq[n + 1]>>
    ELSE DecStr(n \div 10) \o <<DigitSeq[(n % 10) + 1]>>

\* f"{n:0{w}d}": zero-padded on the left to at least w digits
RECURSIVE ZeroPad(_, _)
ZeroPad(s, w) == IF Len(s) >= w THEN s ELSE ZeroPad(<<"0">> \o s, w)

\* datetime.strftime("%Y-%m-%d")
StrftimeYmd(dt) ==
    ZeroPad(DecStr(dt.y), 4) \o <<"-">> \o ZeroPad(DecStr(dt.m), 2)
        \o <<"-">> \o ZeroPad(DecStr(dt.d), 2)

generate_dirname(conv) ==
    StrftimeYmd(conv.created_at) \o UNDERSCORE \o slugify(conv.title, DEFAULT_MAX_LEN)

\* a dict as a function: d[k] = v
Put(d, k, v) == [x \in (DOMAIN d) \cup {k} |-> IF x = k THEN v ELSE d[x]]

EmptyDict == [x \in {} |-> 0]

\* (a variant of the next definition that forgets the table)
ResolveNoSuffix(base, counts) == base

\* lines 218-223: the dirname of the next entry with this base name
ResolveDirname(base, counts) ==
    IF base \in DOMAIN counts
    THEN base \o UNDERSCORE \o DecStr(counts[base] + 1)
    ELSE base

\* (a variant of the next definition that counts a name once)
BumpCountOnce(base, counts) == Put(counts, base, 1)

\* lines 218-223: the table after that entry
BumpCount(base, counts) ==
    IF base \in DOMAIN counts
    THEN Put(counts, base, counts[base] + 1)
    ELSE Put(counts, base, 1)

-----------------------------------------------------------------------------
(* The namespace projector: the generated documents and directories.       *)
(* A leaf is [text |-> t] (a message, a document, a memory, verbatim) or   *)
(* [json |-> r] (the document json.dumps writes for the dict r); a         *)
(* directory is a function from names to leaves or directories.            *)


\* datetime.isoformat() of a datetime with whole hours
IsoFormat(dt) ==
    StrftimeYmd(dt) \o <<"T">> \o ZeroPad(DecStr(dt.h), 2) \o <<":","0","0",":","0","0">>
        \o (IF dt.tz = "utc" THEN <<"+","0","0",":","0","0">> ELSE <<>>)

\* Python's None where a str is expected: one atom that is no character
None == <<"None">>

\* a leaf holding a value that is not a document (a str, or None)
TextLeaf(t) == [kind \in {<<"text">>} |-> t]

\* a leaf holding json.dumps(r, indent=2)
JsonLeaf(r) == [kind \in {<<"json">>} |-> r]

\* json.dumps of a str (ensure_ascii: a character outside ASCII is written
\* as an escape, here the atom "\\u" followed by the character) or of None
\* (a variant of the next definition that leaves the character out)
DropNonAscii(s) == SelectSeq(s, IsAscii)

RECURSIVE EscapeNonAscii(_)
EscapeNonAscii(s) ==
    IF s = <<>> THEN <<>>
    ELSE (IF IsAscii(Head(s)) THEN <<Head(s)>> ELSE <<"\\u", Head(s)>>)
             \o EscapeNonAscii(Tail(s))

DumpStr(s) == IF s = None THEN [k |-> "null", v |-> <<>>]
              ELSE [k |-> "str", v |-> EscapeNonAscii(s)]

\* json.dumps of an int
DumpInt(n) == [k |-> "num", v |-> DecStr(n)]

_generate_metadata(conv) ==
    JsonLeaf([id |-> DumpStr(conv.id),
              title |-> DumpStr(conv.title),
              created_at |-> DumpStr(IsoFormat(conv.created_at)),
              updated_at |-> DumpStr(IsoFormat(conv.updated_at)),
              provider |-> conv.provider,
              message_count |-> DumpInt(Len(conv.messages))])

\* (a variant of the next definition that does not pad the index)
MessageFilenameNoPad(i, msg) == DecStr(i) \o UNDERSCORE \o msg.role \o DOT_MD

\* f"{i:03d}_{msg.role}.md"
MessageFilename(i, msg) == ZeroPad(DecStr(i), 3) \o UNDERSCORE \o msg.role \o DOT_MD

\* lines 226-234: the directory of one conversation
RECURSIVE AddMessages(_, _, _)
AddMessages(conv_dir, messages, i) ==
    IF i > Len(messages) THEN conv_dir
    ELSE AddMessages(Put(conv_dir, MessageFilename(i, messages[i]),
                         TextLeaf(messages[i].content)),
                     messages, i + 1)

ConvDir(conv) ==
    AddMessages(Put(EmptyDict, METADATA_JSON, _generate_metadata(conv)),
                conv.messages, 1)

_generate_project_metadata(proj) ==
    JsonLeaf([id |-> DumpStr(proj.id),
              name |-> DumpStr(proj.name),
              description |-> DumpStr(proj.description),
              created_at |-> DumpStr(IsoFormat(proj.created_at)),
              updated_at |-> DumpStr(IsoFormat(proj.updated_at)),
              doc_count |-> DumpInt(Len(proj.docs)),
              docs |-> [i \in DOMAIN proj.docs |->
                          [id |-> DumpStr(proj.docs[i].id),
                           filename |-> DumpStr(proj.docs[i].filename),
                           created_at |-> DumpStr(IsoFormat(proj.docs[i].created_at))]]])

_generate_projects_index(projs, now) ==
    JsonLeaf([project_count |-> DumpInt(Len(projs)),
              generated_at |-> now,
              projects |-> [i \in DOMAIN projs |->
                              [id |-> DumpStr(projs[i].id),
                               name |-> DumpStr(projs[i].name),
                               description |-> DumpStr(projs[i].description),
                               created_at |-> DumpStr(IsoFormat(projs[i].created_at)),
                               doc_count |-> DumpInt(Len(projs[i].docs))]]])

\* filename.rsplit(".", 1) if "." in filename else (filename, "")
SplitExt(filename) ==
    LET DotAt == {i \in DOMAIN filename : filename[i] = "."}
    IN  IF DotAt = {} THEN [base |-> filename, ext |-> <<>>]
        ELSE [base |-> SubSeq(filename, 1, Max(DotAt) - 1),
              ext |-> SubSeq(filename, Max(DotAt) + 1, Len(filename))]

\* f"{base}_{counter}.{ext}" if ext else f"{base}_{counter}"
NumberedFilename(base, ext, counter) ==
    IF ext # <<>>
    THEN base \o UNDERSCORE \o DecStr(counter) \o <<".">> \o ext
    ELSE base \o UNDERSCORE \o DecStr(counter)

Min(S) == CHOOSE x \in S : \A y \in S : x <= y

\* (a variant of the next definition that stores a document under its own
\* filename whatever the project directory already holds)
DocFilenameNoCheck(filename, proj_dir) == filename

\* lines 289-294: the name under which a document is stored in proj_dir
DocFilename(filename, proj_dir) ==
    IF filename \in DOMAIN proj_dir
    THEN LET p == SplitExt(filename)
             free == {c \in 2 .. (Cardinality(DOMAIN proj_dir) + 2) :
                        NumberedFilename(p.base, p.ext, c) \notin DOMAIN proj_dir}
         IN  NumberedFilename(p.base, p.ext, Min(free))
    ELSE filename

\* lines 285-296
RECURSIVE AddDocs(_, _, _)
AddDocs(proj_dir, docs, i) ==
    IF i > Len(docs) THEN proj_dir
    ELSE AddDocs(Put(proj_dir, DocFilename(docs[i].filename, proj_dir),
                     TextLeaf(docs[i].content)),
                 docs, i + 1)

ProjDir(proj) ==
    AddDocs(Put(EmptyDict, METADATA_JSON, _generate_project_metadata(proj)),
            proj.docs, 1)

\* lines 266-298: the loop over the projects
RECURSIVE AddProjects(_, _, _, _)
AddProjects(projects_fs, counts, projs, i) ==
    IF i > Len(projs) THEN projects_fs
    ELSE LET base == slugify(projs[i].name, DEFAULT_MAX_LEN)
         IN  AddProjects(Put(projects_fs, ResolveDirname(base, counts), ProjDir(projs[i])),
                         BumpCount(base, counts), projs, i + 1)

_generate_projects_fs(projs, now) ==
    Put(AddProjects(EmptyDict, EmptyDict, projs, 1),
        INDEX_JSON, _generate_projects_index(projs, now))

\* lines 325-328 and 366-369: project_names[proj.id] = proj.name, in order
RECURSIVE ProjectNames(_, _, _)
ProjectNames(names, projs, i) ==
    IF i > Len(projs) THEN names
    ELSE ProjectNames(Put(names, projs[i].id, projs[i].name), projs, i + 1)

\* (a variant of the next definition that does not look for the name in the
\* directory)
MemoryFilenameNoCheck(filename, dir) == filename

\* lines 337-342: the name under which a project memory is stored
MemoryFilename(filename, dir) ==
    IF filename \in DOMAIN dir
    THEN LET base == SubSeq(filename, 1, Len(filename) - 3)
             free == {c \in 2 .. (Cardinality(DOMAIN dir) + 2) :
                        (base \o UNDERSCORE \o DecStr(c) \o DOT_MD) \notin DOMAIN dir}
         IN  base \o UNDERSCORE \o DecStr(Min(free)) \o DOT_MD
    ELSE filename

\* lines 331-344: project_memories is a dict in insertion order, here a
\* sequence of [key, value] with distinct keys
RECURSIVE AddProjectMemories(_, _, _, _)
AddProjectMemories(dir, items, names, i) ==
    IF i > Len(items) THEN dir
    ELSE LET proj_id == items[i].key
             proj_name == IF proj_id \in DOMAIN names THEN names[proj_id]
                          ELSE SliceTo(proj_id, 8)
             filename == slugify(proj_name, DEFAULT_MAX_LEN) \o DOT_MD
         IN  AddProjectMemories(Put(dir, MemoryFilename(filename, dir),
                                    TextLeaf(items[i].value)),
                                items, names, i + 1)

_generate_memories_index(mem, projs, now) ==
    LET names == ProjectNames(EmptyDict, projs, 1)
    IN  JsonLeaf([generated_at |-> now,
                  has_conversations_memory |-> mem.conversations_memory # <<>>,
                  conversations_memory_length |-> DumpInt(Len(mem.conversations_memory)),
                  project_memory_count |-> DumpInt(Len(mem.project_memories)),
                  project_memories |-> [i \in DOMAIN mem.project_memories |->
                      [project_id |-> DumpStr(mem.project_memories[i].key),
                       project_name |->
                           DumpStr(IF mem.project_memories[i].key \in DOMAIN names
                                   THEN names[mem.project_memories[i].key]
                                   ELSE <<"U","n","k","n","o","w","n">>),
                       memory_length |-> DumpInt(Len(mem.project_memories[i].value))]]])

_generate_memories_fs(mem, projs, now) ==
    LET CONVERSATIONS_MD == <<"c","o","n","v","e","r","s","a","t","i","o","n","s",".","m","d">>
        PROJECTS_SUBDIR == <<"p","r","o","j","e","c","t","s">>
        withConv == IF mem.conversations_memory # <<>>
                    THEN Put(EmptyDict, CONVERSATIONS_MD, TextLeaf(mem.conversations_memory))
                    ELSE EmptyDict
        memDir == AddProjectMemories(EmptyDict, mem.project_memories,
                                     ProjectNames(EmptyDict, projs, 1), 1)
        withProj == IF mem.project_memories # <<>> /\ DOMAIN memDir # {}
                    THEN Put(withConv, PROJECTS_SUBDIR, memDir)
                    ELSE withConv
    IN  Put(withProj, INDEX_JSON, _generate_memories_index(mem, projs, now))

\* the argument memories=None
NoMemories == [none |-> TRUE]

\* (a variant of the next definition that takes the other timestamp)
ConversationSummaryUpdated(conv) ==
    [id |-> DumpStr(conv.id),
     title |-> DumpStr(conv.title),
     created_at |-> DumpStr(IsoFormat(conv.updated_at)),
     provider |-> conv.provider,
     message_count |-> DumpInt(Len(conv.messages))]

\* lines 102-108: the entry of one conversation in the root index
ConversationSummary(conv) ==
    [id |-> DumpStr(conv.id),
     title |-> DumpStr(conv.title),
     created_at |-> DumpStr(IsoFormat(conv.created_at)),
     provider |-> conv.provider,
     message_count |-> DumpInt(Len(conv.messages))]

_generate_index(convs, projs, mem, now) ==
    LET base == [conversation_count |-> DumpInt(Len(convs)),
                 generated_at |-> now,
                 conversations |-> [i \in DOMAIN convs |-> ConversationSummary(convs[i])]]
        projPart == IF projs # <<>>
                    THEN [project_count |-> DumpInt(Len(projs)),
                          projects |-> [i \in DOMAIN projs |->
                              [id |-> DumpStr(projs[i].id),
                               name |-> DumpStr(projs[i].name),
                               created_at |-> DumpStr(IsoFormat(projs[i].created_at)),
                               doc_count |-> DumpInt(Len(projs[i].docs))]]]
                    ELSE EmptyDict
        memPart == IF mem # NoMemories
                   THEN [has_memories |-> TRUE,
                         project_memory_count |-> DumpInt(Len(mem.project_memories))]
                   ELSE EmptyDict
    IN  JsonLeaf(base @@ projPart @@ memPart)

\* cli.py lines 386-416: what is on disk under base_path after the call
\* (a file is the leaf written, a directory a function from names), and the
\* two counts returned; an entry that is neither str nor dict is passed over
RECURSIVE _write_fs_recursive(_)
RECURSIVE WriteItems(_, _, _)
WriteItems(fs_dict, names, acc) ==
    IF names = {} THEN acc
    ELSE LET name == CHOOSE n \in names : TRUE
             content == fs_dict[name]
             sub == _write_fs_recursive(content)
             \* line 401, isinstance(content, str): a leaf that does not hold None
             IsStr(c) == \/ DOMAIN c = {<<"json">>}
                         \/ DOMAIN c = {<<"text">>} /\ c[<<"text">>] # None
             \* line 406, isinstance(content, dict)
             IsDict(c) == DOMAIN c \notin {{<<"json">>}, {<<"text">>}}
         IN  WriteItems(fs_dict, names \ {name},
                 IF IsStr(content)
                 THEN [disk |-> Put(acc.disk, name, content),
                       files_written |-> acc.files_written + 1,
                       dirs_created |-> acc.dirs_created]
                 ELSE IF IsDict(content)
                 THEN [disk |-> Put(acc.disk, name, sub.disk),
                       files_written |-> acc.files_written + sub.files_written,
                       dirs_created |-> acc.dirs_created + 1 + sub.dirs_created]
                 ELSE acc)

_write_fs_recursive(fs_dict) ==
    WriteItems(fs_dict, DOMAIN fs_dict,
               [disk |-> EmptyDict, files_written |-> 0, dirs_created |-> 0])

-----------------------------------------------------------------------------
(* The Format-A parser: JSON values and Python results.                    *)
(* A decoded JSON value is [k |-> kind, v |-> content]: "null", "str" (v   *)
(* the text), "num" (v the digits), "list" (v the elements) or "dict" (v a *)
(* function from the keys present to values).  A timestamp text is written *)
(* in tokens: "D15T10" is 2024-01-15T10:00:00, then "Z" or "+00:00".       *)
(* A call returns a value, returns None, or raises.                        *)

USER == <<"u","s","e","r">>
ASSISTANT == <<"a","s","s","i","s","t","a","n","t">>
CLAUDE == "claude"

JNull == [k |-> "null", v |-> <<>>]
JStr(s) == [k |-> "str", v |-> s]
JNum(digits) == [k |-> "num", v |-> digits]
JList(elems) == [k |-> "list", v |-> elems]
JDict(fields) == [k |-> "dict", v |-> fields]

Value(v) == [r |-> "value", v |-> v]
NoneResult == [r |-> "none", v |-> <<>>]
Raise(exc) == [r |-> "raise", v |-> <<exc>>]
\* the call was not made
NotCalled == [r |-> "not called", v |-> <<>>]

\* d.get(key, default) of a dict d
Get(d, key, default) == IF key \in DOMAIN d.v THEN d.v[key] ELSE default

\* bool(x)
Truthy(x) ==
    CASE x.k = "null" -> FALSE
      [] x.k = "str"  -> x.v # <<>>
      [] x.k = "num"  -> x.v # <<"0">>
      [] x.k = "list" -> x.v # <<>>
      [] x.k = "dict" -> DOMAIN x.v # {}

\* the items "for item in x" visits, or the TypeError it raises
IterItems(x) ==
    CASE x.k = "list" -> Value(x.v)
      [] x.k = "str"  -> Value([i \in DOMAIN x.v |-> JStr(<<x.v[i]>>)])
      [] x.k = "dict" -> Value(IF DOMAIN x.v = {} THEN <<>> ELSE <<JStr(<<"key">>)>>)
      [] OTHER        -> Raise("TypeError")

IsoBodies == {"D15T10", "D16T11"}

BodyDatetime(tok, tz) ==
    IF tok = "D15T10"
    THEN [y |-> 2024, m |-> 1, d |-> 15, h |-> 10, tz |-> tz]
    ELSE [y |-> 2024, m |-> 1, d |-> 16, h |-> 11, tz |-> tz]

\* datetime.fromisoformat(text)
fromisoformat(text) ==
    IF Len(text) = 1 /\ text[1] \in IsoBodies
        THEN Value(BodyDatetime(text[1], "naive"))
    ELSE IF Len(text) = 2 /\ text[1] \in IsoBodies /\ text[2] = "+00:00"
        THEN Value(BodyDatetime(text[1], "utc"))
    ELSE Raise("ValueError")

\* (a variant of the next definition that removes a trailing Z and adds no
\* offset)
_parse_timestamp_drops_z(ts) ==
    IF ~Truthy(ts) THEN NoneResult
    ELSE IF ts.k # "str" THEN Raise("AttributeError")
    ELSE LET parsed_ts == fromisoformat(IF ts.v[Len(ts.v)] = "Z"
                                        THEN SubSeq(ts.v, 1, Len(ts.v) - 1)
                                        ELSE ts.v)
         IN  IF parsed_ts.r = "raise" THEN NoneResult ELSE parsed_ts

\* lines 272-293; ts.endswith raises AttributeError on a value that is no str
_parse_timestamp(ts) ==
    IF ~Truthy(ts) THEN NoneResult
    ELSE IF ts.k # "str" THEN Raise("AttributeError")
    ELSE LET parsed_ts == fromisoformat(IF ts.v[Len(ts.v)] = "Z"
                                        THEN SubSeq(ts.v, 1, Len(ts.v) - 1) \o <<"+00:00">>
                                        ELSE ts.v)
         IN  IF parsed_ts.r = "raise" THEN NoneResult ELSE parsed_ts

HUMAN == <<"human">>
ASSISTANT_SENDER == <<"assistant">>

\* lines 257-270: mapping.get(sender); a list or dict is unhashable
_map_sender_to_role(sender) ==
    IF sender.k \in {"list", "dict"} THEN Raise("TypeError")
    ELSE IF sender = JStr(HUMAN) THEN Value(USER)
    ELSE IF sender = JStr(ASSISTANT_SENDER) THEN Value(ASSISTANT)
    ELSE NoneResult

\* lines 235-255
_parse_attachment(att_data) ==
    IF att_data.k # "dict" THEN Raise("AttributeError")
    ELSE LET att_id == Get(att_data, "id", Get(att_data, "uuid", JStr(<<>>)))
             filename == Get(att_data, "file_name", Get(att_data, "filename", JStr(<<>>)))
         IN  IF ~Truthy(att_id) \/ ~Truthy(filename) THEN NoneResult
             ELSE Value([id |-> att_id, filename |-> filename,
                         mime_type |-> Get(att_data, "mime_type", JStr(<<"application/octet-stream">>)),
                         size |-> Get(att_data, "file_size", Get(att_data, "size", JNull))])

\* lines 222-225: the attachments kept, or the exception of the first
\* entry that raises
RECURSIVE ParseAttachments(_, _, _)
ParseAttachments(items, i, acc) ==
    IF i > Len(items) THEN Value(acc)
    ELSE LET a == _parse_attachment(items[i])
         IN  CASE a.r = "raise" -> a
               [] a.r = "none"  -> ParseAttachments(items, i + 1, acc)
               [] OTHER         -> ParseAttachments(items, i + 1, Append(acc, a.v))

\* lines 192-233
_parse_message(msg_data) ==
    IF msg_data.k # "dict" THEN Raise("AttributeError")
    ELSE LET msg_id == Get(msg_data, "uuid", JNull)
             role == _map_sender_to_role(Get(msg_data, "sender", JStr(<<>>)))
             timestamp == _parse_timestamp(Get(msg_data, "created_at", JNull))
             items == IterItems(Get(msg_data, "attachments", JList(<<>>)))
             attachments == ParseAttachments(items.v, 1, <<>>)
         IN  IF ~Truthy(msg_id) THEN NoneResult
             ELSE IF role.r = "raise" THEN role
             ELSE IF role.r = "none" THEN NoneResult
             ELSE IF timestamp.r = "raise" THEN timestamp
             ELSE IF timestamp.r = "none" THEN NoneResult
             ELSE IF items.r = "raise" THEN items
             ELSE IF attachments.r = "raise" THEN attachments
             ELSE Value([id |-> msg_id, role |-> role.v,
                         content |-> Get(msg_data, "text", JStr(<<>>)),
                         timestamp |-> timestamp.v, attachments |-> attachments.v])

\* lines 178-181: the messages kept, or the exception of the first entry
\* that raises
RECURSIVE ParseMessages(_, _, _)
ParseMessages(items, i, acc) ==
    IF i > Len(items) THEN Value(acc)
    ELSE LET msg == _parse_message(items[i])
         IN  CASE msg.r = "raise" -> msg
               [] msg.r = "none"  -> ParseMessages(items, i + 1, acc)
               [] OTHER           -> ParseMessages(items, i + 1, Append(acc, msg.v))

UNTITLED_TITLE == <<"U","n","t","i","t","l","e","d">>

\* lines 144-190
_parse_conversation_data(data) ==
    IF data.k # "dict" THEN Raise("AttributeError")
    ELSE LET conv_id == Get(data, "uuid", JNull)
             created_at == _parse_timestamp(Get(data, "created_at", JNull))
             updated_at == _parse_timestamp(Get(data, "updated_at", JNull))
             items == IterItems(Get(data, "chat_messages", JList(<<>>)))
             messages == ParseMessages(items.v, 1, <<>>)
         IN  IF ~Truthy(conv_id) THEN NoneResult
             ELSE IF created_at.r = "raise" THEN created_at
             ELSE IF updated_at.r = "raise" THEN updated_at
             ELSE IF created_at.r = "none" THEN NoneResult
             ELSE IF items.r = "raise" THEN items
             ELSE IF messages.r = "raise" THEN messages
             ELSE Value([id |-> conv_id,
                         title |-> Get(data, "name", JStr(UNTITLED_TITLE)),
                         created_at |-> created_at.v,
                         updated_at |-> IF updated_at.r = "none" THEN created_at.v
                                        ELSE updated_at.v,
                         provider |-> CLAUDE,
                         messages |-> messages.v])

-----------------------------------------------------------------------------
(* The Format-B parser: linearization of an edit-history graph             *)
(* (providers/chatgpt.py; modelled from section 4.3 of the specification). *)
(* A graph maps a node identifier to a node record: an optional message    *)
(* payload, a parent reference and an ordered list of child references.    *)
(* A payload carries the identifier of its node, the author role and the   *)
(* ordered list of content fragments.                                      *)

\* the parent reference of the root
NoParent == 0

SYSTEM == <<"s","y","s","t","e","m">>
TOOL == <<"t","o","o","l">>

NoMessage == [present |-> FALSE, id |-> 0, role |-> <<>>, parts |-> <<>>]

\* the root: the node with no parent
Root(g) == CHOOSE n \in DOMAIN g : g[n].parent = NoParent

\* the child the traversal descends into
LastChild(children) == children[Len(children)]

FirstChild(children) == children[1]

\* the text of a message: its plain-text fragments ("str") concatenated in
\* order, the other fragments skipped
RECURSIVE ConcatParts(_)
ConcatParts(parts) ==
    IF parts = <<>> THEN <<>>
    ELSE (IF Head(parts).k = "str" THEN Head(parts).v ELSE <<>>)
             \o ConcatParts(Tail(parts))

\* text.strip() == ""
IsBlank(text) == \A i \in DOMAIN text : text[i] \in {" ", "\t", "\n"}

\* a payload that stays in the message sequence: a recognized author role
\* and a text that is not empty or whitespace-only
Retained(message) ==
    /\ message.role \in {USER, ASSISTANT, SYSTEM}
    /\ ~IsBlank(ConcatParts(message.parts))

\* what one visit adds to the collected payloads
Collect(acc, node) ==
    IF node.message.present THEN Append(acc, node.message) ELSE acc

-----------------------------------------------------------------------------
(* Each specification below runs one part of the program; the variables  *)
(* of the other parts stay as they are here.                              *)

IdleExcept(parts) ==
    /\ IF "slug" \in parts THEN TRUE
       ELSE title = <<>> /\ max_len = 0 /\ slug = <<>> /\ slug2 = <<>> /\ pcSlug = "idle"
    /\ IF "gen" \in parts THEN TRUE
       ELSE /\ conversations = <<>> /\ projects = <<>> /\ memories = NoMemories
            /\ fs = EmptyDict /\ dirname_counts = EmptyDict /\ dirnames = <<>>
            /\ pcGen = "idle" /\ run = 0 /\ fs_first = EmptyDict
    /\ IF "parse" \in parts THEN TRUE
       ELSE /\ archive = [kind |-> "missing", entries |-> <<>>] /\ parsed = <<>>
            /\ pIdx = 0 /\ pcParse = "idle" /\ outcome = "idle"
    /\ IF "lin" \in parts THEN TRUE
       ELSE /\ mapping = <<>> /\ node_id = NoParent /\ linear = <<>>
            /\ linearized = <<>> /\ pcLin = "idle"
    /\ IF "det" \in parts THEN TRUE
       ELSE detected = FALSE /\ detect_outcome = "idle"
    /\ IF "write" \in parts THEN TRUE
       ELSE /\ disk = EmptyDict /\ files_written = 0 /\ dirs_created = 0
            /\ pcWrite = "idle"
    /\ IF "cmd" \in parts THEN TRUE
       ELSE /\ command = "none" /\ provider = "none" /\ mountpoint = "none"
            /\ temp_dir = "none" /\ ffs_calls = 0 /\ pcCmd = "idle"
    /\ IF "proj" \in parts THEN TRUE
       ELSE projects_result = NotCalled /\ memories_result = NotCalled

-----------------------------------------------------------------------------
(* slugify on its own: the inputs, one application, the re-application *)

RECURSIVE SeqsUpTo(_, _)
SeqsUpTo(S, n) ==
    IF n = 0 THEN {<<>>}
    ELSE LET shorter == SeqsUpTo(S, n - 1)
         IN  shorter \cup {Append(s, x) : s \in {t \in shorter : Len(t) = n - 1}, x \in S}

InitSlug ==
    /\ title \in SeqsUpTo({"a", "B", " ", "E_acute", "cjk"}, MaxTitleLen)
    /\ max_len \in 0 .. MaxLenArg
    /\ slug = <<>>
    /\ slug2 = <<>>
    /\ pcSlug = "input"
    /\ IdleExcept({"slug"})

\* slug = slugify(title, max_len)
Slugify ==
    /\ pcSlug = "input"
    /\ slug' = slugify(title, max_len)
    /\ pcSlug' = "slugified"
    /\ UNCHANGED <<title, max_len, slug2, genVars, parseVars, linVars, detVars, writeVars, cmdVars, projVars>>

\* slugify(slug, max_len): the function applied to its own result
Reslugify ==
    /\ pcSlug = "slugified"
    /\ slug2' = slugify(slug, max_len)
    /\ pcSlug' = "reslugified"
    /\ UNCHANGED <<title, max_len, slug, genVars, parseVars, linVars, detVars, writeVars, cmdVars, projVars>>

NextSlug == Slugify \/ Reslugify

SpecSlugify == InitSlug /\ [][NextSlug]_vars

-----------------------------------------------------------------------------
(* generate_fs_json: the arguments, the loop over the conversations, and   *)
(* the rest of the function (projects, memories, root index)               *)

\* the values the three successive datetime.now().isoformat() of one call
\* can take (_projects index, _memories index, root index): a later reading
\* is not earlier
Clock ==
    {<<"t1", "t1", "t1">>, <<"t1", "t1", "t2">>, <<"t1", "t2", "t2">>, <<"t2", "t2", "t2">>}

\* the arguments of generate_fs_json: lists of conversations of three shapes
\* (two titles of one slug on one day; no, two or three messages) beside
\* nothing or one project and memories; one conversation beside memories
\* and a list of projects of three names (two of one slug); one
\* conversation beside one project with a list of documents of four
\* filenames; one conversation beside one project and project memories
\* under a list of distinct identifiers: that of the project and three that
\* no project has (one that is the slug of the project's name, two longer
\* than 8 characters that share their first 8); one conversation titled
\* _index.json, _projects or _memories beside memories and a project named
\* _index.json with a document named _metadata.json
GenModels ==
    LET Dt(day, hour, tz) == [y |-> 2024, m |-> 1, d |-> day, h |-> hour, tz |-> tz]
        Msg(i, role, content) ==
            [id |-> <<"m">> \o DecStr(i), role |-> role, content |-> content,
             timestamp |-> Dt(15, 10, "utc")]
        Messages == <<Msg(1, USER, <<"h", "i">>), Msg(2, ASSISTANT, <<"E_acute", "\n">>),
                      Msg(3, USER, <<>>)>>
        Shapes == {[title |-> <<"a">>, day |-> 15, n |-> 0],
                   [title |-> <<"a", " ">>, day |-> 15, n |-> 2],
                   [title |-> <<"E_acute">>, day |-> 16, n |-> 3]}
        Conv(i, shape) ==
            [id |-> <<"c">> \o DecStr(i), title |-> shape.title,
             created_at |-> Dt(shape.day, 10, "utc"),
             updated_at |-> Dt(shape.day + 1, 11, "naive"),
             provider |-> CLAUDE, messages |-> SubSeq(Messages, 1, shape.n)]
        Doc(i, filename) ==
            [id |-> <<"d">> \o DecStr(i), filename |-> filename,
             content |-> <<"x">> \o DecStr(i), created_at |-> Dt(15, 10, "utc")]
        Proj(i, name, filenames) ==
            [id |-> <<"p">> \o DecStr(i), name |-> name, description |-> <<"E_acute">>,
             created_at |-> Dt(15, 10, "utc"), updated_at |-> Dt(16, 11, "naive"),
             docs |-> [j \in DOMAIN filenames |-> Doc(j, filenames[j])]]
        XM == <<"x", ".", "m">>
        Filenames == {XM, <<"x">>, <<"x", ".">>, <<"x", "_", "2", ".", "m">>}
        ProjNames == {<<"a">>, <<"a", " ">>, <<"B">>}
        Mem == [conversations_memory |-> <<"m">>,
                project_memories |-> <<[key |-> <<"p", "1">>, value |-> <<"v">>],
                                       [key |-> <<"p", "9">>, value |-> <<"w">>]>>]
        MemKeys == {<<"p", "1">>, <<"a">>,
                    <<"a", "b", "c", "d", "e", "f", "g", "h", "i", "j">>,
                    <<"a", "b", "c", "d", "e", "f", "g", "h", "x">>}
        Distinct(keys) == \A i, j \in DOMAIN keys : keys[i] = keys[j] => i = j
        ProjectMems(keys) ==
            [conversations_memory |-> <<>>,
             project_memories |-> [i \in DOMAIN keys |->
                                     [key |-> keys[i], value |-> <<"m">> \o keys[i]]]]
        Titled(t) == <<Conv(1, [title |-> t, day |-> 15, n |-> 1])>>
        OneConv == Titled(<<"a">>)
        Model(convs, projs, mem) ==
            [conversations |-> convs, projects |-> projs, memories |-> mem]
    IN  {Model([i \in DOMAIN shapes |-> Conv(i, shapes[i])], extra[1], extra[2]) :
            extra \in {<<<<>>, NoMemories>>,
                       <<<<Proj(1, <<"a">>, <<XM, XM, METADATA_JSON>>)>>, Mem>>},
            shapes \in SeqsUpTo(Shapes, MaxConvs)}
        \cup {Model(OneConv, [i \in DOMAIN names |-> Proj(i, names[i], <<XM>>)], Mem) :
                names \in SeqsUpTo(ProjNames, MaxProjects) \ {<<>>}}
        \cup {Model(OneConv, <<Proj(1, <<"a">>, filenames)>>, NoMemories) :
                filenames \in SeqsUpTo(Filenames, MaxDocs)}
        \cup {Model(OneConv, <<Proj(1, <<"a", " ">>, <<>>)>>, ProjectMems(keys)) :
                keys \in {k \in SeqsUpTo(MemKeys, MaxProjects) : k # <<>> /\ Distinct(k)}}
        \cup {Model(Titled(t), <<Proj(1, INDEX_JSON, <<METADATA_JSON>>)>>, Mem) :
                t \in {INDEX_JSON, PROJECTS_DIR, MEMORIES_DIR}}

InitGen ==
    /\ \E model \in GenModels :
          /\ conversations = model.conversations
          /\ projects = model.projects
          /\ memories = model.memories
    /\ fs = EmptyDict
    /\ dirname_counts = EmptyDict
    /\ dirnames = <<>>
    /\ pcGen = "convs"
    /\ run = 1
    /\ fs_first = EmptyDict
    /\ IdleExcept({"gen"})

\* lines 213-236: one turn of the loop over the conversations; slugify of a
\* title that is None raises TypeError (line 28, unicodedata.normalize)
GenConversation ==
    /\ pcGen = "convs"
    /\ Len(dirnames) < Len(conversations)
    /\ LET conv == conversations[Len(dirnames) + 1]
       IN  IF conv.title = None
           THEN /\ pcGen' = "TypeError"
                /\ UNCHANGED <<fs, dirname_counts, dirnames>>
           ELSE LET base_dirname == generate_dirname(conv)
                    dirname == ResolveDirname(base_dirname, dirname_counts)
                IN  /\ dirname_counts' = BumpCount(base_dirname, dirname_counts)
                    /\ fs' = Put(fs, dirname, ConvDir(conv))
                    /\ dirnames' = Append(dirnames, dirname)
                    /\ pcGen' = pcGen
    /\ UNCHANGED <<conversations, projects, memories, run, fs_first,
                   slugVars, parseVars, linVars, detVars, writeVars, cmdVars, projVars>>

\* lines 238-251: _projects, _memories, _index.json, return; slugify of a
\* project name that is None and len of a memory text that is None raise
\* TypeError (lines 28, 374 and 380)
GenFinish ==
    /\ pcGen = "convs"
    /\ Len(dirnames) = Len(conversations)
    /\ IF \/ \E i \in DOMAIN projects : projects[i].name = None
          \/ /\ memories # NoMemories
             /\ \/ memories.conversations_memory = None
                \/ \E i \in DOMAIN memories.project_memories :
                      memories.project_memories[i].value = None
       THEN pcGen' = "TypeError" /\ fs' = fs
       ELSE /\ \E now \in Clock :
                LET withProjects ==
                        IF projects # <<>>
                        THEN Put(fs, PROJECTS_DIR, _generate_projects_fs(projects, now[1]))
                        ELSE fs
                    withMemories ==
                        IF memories # NoMemories
                        THEN Put(withProjects, MEMORIES_DIR,
                                 _generate_memories_fs(memories, projects, now[2]))
                        ELSE withProjects
                IN  fs' = Put(withMemories, INDEX_JSON,
                              _generate_index(conversations, projects, memories, now[3]))
            /\ pcGen' = "done"
    /\ UNCHANGED <<conversations, projects, memories, dirname_counts, dirnames, run, fs_first,
                   slugVars, parseVars, linVars, detVars, writeVars, cmdVars, projVars>>

\* (a variant of the next definition in which the table dirname_counts
\* outlives the call)
GenAgainKeepCounts ==
    /\ pcGen = "done" /\ run = 1 /\ pcWrite = "idle"
    /\ fs_first' = fs
    /\ fs' = EmptyDict
    /\ dirname_counts' = dirname_counts
    /\ dirnames' = <<>>
    /\ run' = 2
    /\ pcGen' = "convs"
    /\ UNCHANGED <<conversations, projects, memories,
                   slugVars, parseVars, linVars, detVars, writeVars, cmdVars, projVars>>

\* lines 210-211: a second call on the same arguments starts from an empty
\* tree and an empty table
GenAgain ==
    /\ pcGen = "done" /\ run = 1 /\ pcWrite = "idle"
    /\ fs_first' = fs
    /\ fs' = EmptyDict
    /\ dirname_counts' = EmptyDict
    /\ dirnames' = <<>>
    /\ run' = 2
    /\ pcGen' = "convs"
    /\ UNCHANGED <<conversations, projects, memories,
                   slugVars, parseVars, linVars, detVars, writeVars, cmdVars, projVars>>

\* cli.py lines 364-375: the tree the call returned is written under a new
\* outdir (by export; mount writes no tree)
WriteTree ==
    /\ pcGen = "done" /\ run = 1 /\ pcWrite = "idle" /\ command # "mount"
    /\ LET written == _write_fs_recursive(fs)
       IN  /\ disk' = written.disk
           /\ files_written' = written.files_written
           /\ dirs_created' = written.dirs_created
    /\ pcWrite' = "done"
    /\ UNCHANGED <<genVars, slugVars, parseVars, linVars, detVars, cmdVars, projVars>>

NextGen == GenConversation \/ GenFinish \/ GenAgain \/ WriteTree

SpecGenerate == InitGen /\ [][NextGen]_vars

-----------------------------------------------------------------------------
(* The Format-A parser: the archive and ClaudeProvider.parse               *)
(* An archive is missing, not a ZIP, or a ZIP: a sequence of entries, each *)
(* a name (in tokens: <<"conversations/", "a", ".json">>) and a content,   *)
(* which is a JSON value or [k |-> "invalid"] for bytes that are not JSON. *)

INVALID_JSON == [k |-> "invalid", v |-> <<>>]

CONVERSATIONS_JSON == <<"conversations.json">>

\* name.startswith("conversations/") and name.endswith(".json")
IsConversationFile(name) ==
    name[1] = "conversations/" /\ name[Len(name)] = ".json"

\* json.load(f)
JsonLoad(content) ==
    IF content.k = "invalid" THEN Raise("JSONDecodeError") ELSE Value(content)

\* zf.namelist()
Names(ar) == [i \in DOMAIN ar.entries |-> ar.entries[i].name]

\* zf.open(name): the content of the entry of that name
Content(ar, name) ==
    ar.entries[CHOOSE i \in DOMAIN ar.entries : ar.entries[i].name = name].content

\* lines 139-142
_parse_conversation_file(entry) ==
    LET data == JsonLoad(entry.content)
    IN  IF data.r = "raise" THEN data ELSE _parse_conversation_data(data.v)

\* (a variant of the next definition that puts the conversation first)
PrependIfParsed(acc, result) ==
    IF result.r = "value" THEN <<result.v>> \o acc ELSE acc

\* lines 118-123 and 87-92: try: ... if conversation: append;
\* except Exception: skip
AppendIfParsed(acc, result) ==
    IF result.r = "value" THEN Append(acc, result.v) ELSE acc

\* lines 72-80 and 94-97, 110-115: open the archive, choose the format
ParseOpen ==
    /\ pcParse = "start"
    /\ IF archive.kind \in {"missing", "notzip"}
       THEN \* FileNotFoundError (an OSError) or BadZipFile: caught, logged
            /\ pcParse' = "done" /\ outcome' = "returned"
            /\ UNCHANGED <<parsed, pIdx>>
       ELSE IF CONVERSATIONS_JSON \in Range(Names(archive))
       THEN LET data == JsonLoad(Content(archive, CONVERSATIONS_JSON))
            IN  IF data.r = "raise"
                THEN \* not caught by except (BadZipFile, OSError)
                     /\ pcParse' = "done" /\ outcome' = data.v[1]
                     /\ UNCHANGED <<parsed, pIdx>>
                ELSE IF data.v.k # "list"
                THEN /\ pcParse' = "done" /\ outcome' = "returned"
                     /\ UNCHANGED <<parsed, pIdx>>
                ELSE /\ pcParse' = "json_loop" /\ pIdx' = 1
                     /\ UNCHANGED <<parsed, outcome>>
       ELSE /\ pcParse' = "files_loop" /\ pIdx' = 1
            /\ UNCHANGED <<parsed, outcome>>
    /\ UNCHANGED <<archive, slugVars, genVars, linVars, detVars, writeVars, cmdVars, projVars>>

\* lines 117-123: one element of conversations.json
ParseJsonElement ==
    /\ pcParse = "json_loop"
    /\ LET data == Content(archive, CONVERSATIONS_JSON).v
       IN  /\ pIdx <= Len(data)
           /\ parsed' = AppendIfParsed(parsed, _parse_conversation_data(data[pIdx]))
    /\ pIdx' = pIdx + 1
    /\ UNCHANGED <<archive, pcParse, outcome, slugVars, genVars, linVars, detVars, writeVars, cmdVars, projVars>>

\* lines 83-92: one entry of the ZIP
ParseFileEntry ==
    /\ pcParse = "files_loop"
    /\ pIdx <= Len(archive.entries)
    /\ parsed' = IF IsConversationFile(archive.entries[pIdx].name)
                 THEN AppendIfParsed(parsed, _parse_conversation_file(archive.entries[pIdx]))
                 ELSE parsed
    /\ pIdx' = pIdx + 1
    /\ UNCHANGED <<archive, pcParse, outcome, slugVars, genVars, linVars, detVars, writeVars, cmdVars, projVars>>

\* lines 125 and 97: return conversations
ParseReturn ==
    /\ \/ pcParse = "json_loop" /\ pIdx > Len(Content(archive, CONVERSATIONS_JSON).v)
       \/ pcParse = "files_loop" /\ pIdx > Len(archive.entries)
    /\ pcParse' = "done"
    /\ outcome' = "returned"
    /\ UNCHANGED <<archive, parsed, pIdx, slugVars, genVars, linVars, detVars, writeVars, cmdVars, projVars>>

NextParse == ParseOpen \/ ParseJsonElement \/ ParseFileEntry \/ ParseReturn

-----------------------------------------------------------------------------
(* ClaudeProvider.parse_projects and parse_memories.  The entries are       *)
(* named <<"projects.json">> and <<"memories.json">>; now is what            *)
(* datetime.now(timezone.utc) returns during the call.                      *)

\* lines 374-400
_parse_project_doc(data, now) ==
    IF data.k # "dict" THEN Raise("AttributeError")
    ELSE LET filename == Get(data, "filename", JStr(<<>>))
             created_at == _parse_timestamp(Get(data, "created_at", JNull))
         IN  IF created_at.r = "raise" THEN created_at
             ELSE IF ~Truthy(filename) THEN NoneResult
             ELSE Value([id |-> Get(data, "uuid", JStr(<<>>)),
                         filename |-> filename,
                         content |-> Get(data, "content", JStr(<<>>)),
                         created_at |-> IF created_at.r = "none" THEN now
                                        ELSE created_at.v])

\* lines 331-372
_parse_project(data, now) ==
    IF data.k # "dict" THEN Raise("AttributeError")
    ELSE LET RECURSIVE ParseDocs(_, _, _)
             \* lines 355-359: the documents kept, or the exception of the
             \* first entry that raises
             ParseDocs(items, i, acc) ==
                 IF i > Len(items) THEN Value(acc)
                 ELSE LET doc == _parse_project_doc(items[i], now)
                      IN  CASE doc.r = "raise" -> doc
                            [] doc.r = "none"  -> ParseDocs(items, i + 1, acc)
                            [] OTHER           -> ParseDocs(items, i + 1, Append(acc, doc.v))
             proj_id == Get(data, "uuid", JNull)
             created_at == _parse_timestamp(Get(data, "created_at", JNull))
             updated_at == _parse_timestamp(Get(data, "updated_at", JNull))
             items == IterItems(Get(data, "docs", JList(<<>>)))
             docs == ParseDocs(items.v, 1, <<>>)
         IN  IF ~Truthy(proj_id) THEN NoneResult
             ELSE IF created_at.r = "raise" THEN created_at
             ELSE IF updated_at.r = "raise" THEN updated_at
             ELSE IF created_at.r = "none" THEN NoneResult
             ELSE IF items.r = "raise" THEN items
             ELSE IF docs.r = "raise" THEN docs
             ELSE Value([id |-> proj_id,
                         name |-> Get(data, "name", JStr(<<"U","n","t","i","t","l","e","d"," ","P","r","o","j","e","c","t">>)),
                         description |-> Get(data, "description", JStr(<<>>)),
                         created_at |-> created_at.v,
                         updated_at |-> IF updated_at.r = "none" THEN created_at.v
                                        ELSE updated_at.v,
                         docs |-> docs.v])

\* lines 295-329: the list returned; BadZipFile, OSError and JSONDecodeError
\* are caught and logged, an entry that raises is skipped
parse_projects(ar, now) ==
    IF ar.kind \in {"missing", "notzip"} THEN <<>>
    ELSE IF <<"projects.json">> \notin Range(Names(ar)) THEN <<>>
    ELSE LET data == JsonLoad(Content(ar, <<"projects.json">>))
             RECURSIVE ParseRecords(_, _, _)
             ParseRecords(items, i, acc) ==
                 IF i > Len(items) THEN acc
                 ELSE ParseRecords(items, i + 1,
                                   AppendIfParsed(acc, _parse_project(items[i], now)))
         IN  IF data.r = "raise" THEN <<>>
             ELSE IF data.v.k # "list" THEN <<>>
             ELSE ParseRecords(data.v.v, 1, <<>>)

\* lines 402-435: None, the Memories built from the first record, or the
\* AttributeError of memory_data.get on a first record that is no object
\* (the except clause names BadZipFile, OSError and JSONDecodeError)
parse_memories(ar) ==
    IF ar.kind \in {"missing", "notzip"} THEN NoneResult
    ELSE IF <<"memories.json">> \notin Range(Names(ar)) THEN NoneResult
    ELSE LET data == JsonLoad(Content(ar, <<"memories.json">>))
         IN  IF data.r = "raise" THEN NoneResult
             ELSE IF data.v.k # "list" \/ Len(data.v.v) = 0 THEN NoneResult
             ELSE IF data.v.v[1].k # "dict" THEN Raise("AttributeError")
             ELSE Value([conversations_memory |->
                             Get(data.v.v[1], "conversations_memory", JStr(<<>>)),
                         project_memories |->
                             Get(data.v.v[1], "project_memories", JDict(<<>>))])

\* the call parse_projects(zip_path)
ParseProjects ==
    /\ projects_result = NotCalled /\ pcCmd = "idle"
    /\ \E hour \in {12, 13} :
          projects_result' =
              Value(parse_projects(archive,
                                   [y |-> 2025, m |-> 6, d |-> 1, h |-> hour, tz |-> "utc"]))
    /\ UNCHANGED <<memories_result, slugVars, genVars, parseVars, linVars, detVars,
                   writeVars, cmdVars>>

\* the call parse_memories(zip_path)
ParseMemories ==
    /\ memories_result = NotCalled /\ pcCmd = "idle"
    /\ memories_result' = parse_memories(archive)
    /\ UNCHANGED <<projects_result, slugVars, genVars, parseVars, linVars, detVars,
                   writeVars, cmdVars>>

-----------------------------------------------------------------------------
(* ClaudeProvider.detect.  In a JSON text the words uuid, chat_messages and *)
(* mapping are single tokens: "uuid" in "uuid chat_messages" is the test    *)
(* of whether the token is among those of the text.                         *)

\* key in x: a key of a dict, a substring of a str, an element of a list;
\* TypeError ("argument of type ... is not iterable") for None and numbers
PyIn(key, x) ==
    CASE x.k = "dict" -> Value(key \in DOMAIN x.v)
      [] x.k = "str"  -> Value(key \in Range(x.v))
      [] x.k = "list" -> Value(\E i \in DOMAIN x.v :
                                  x.v[i].k = "str" /\ x.v[i].v = <<key>>)
      [] OTHER        -> Raise("TypeError")

\* line 52: "uuid" in first and "chat_messages" in first and "mapping" not in first
LooksFormatA(first) ==
    LET has_uuid == PyIn("uuid", first)
        has_messages == PyIn("chat_messages", first)
        has_mapping == PyIn("mapping", first)
    IN  IF has_uuid.r = "raise" THEN has_uuid
        ELSE IF ~has_uuid.v THEN Value(FALSE)
        ELSE IF has_messages.r = "raise" THEN has_messages
        ELSE IF ~has_messages.v THEN Value(FALSE)
        ELSE IF has_mapping.r = "raise" THEN has_mapping
        ELSE Value(~has_mapping.v)

\* lines 32-57
detect(ar) ==
    IF ar.kind \in {"missing", "notzip"}
    THEN Value(FALSE)       \* OSError or BadZipFile: caught, logged
    ELSE IF \E i \in DOMAIN ar.entries : IsConversationFile(ar.entries[i].name)
    THEN Value(TRUE)
    ELSE IF CONVERSATIONS_JSON \in Range(Names(ar))
    THEN LET data == JsonLoad(Content(ar, CONVERSATIONS_JSON))
         IN  IF data.r = "raise"
             THEN Value(FALSE)      \* json.JSONDecodeError: caught, logged
             ELSE IF data.v.k = "list" /\ Len(data.v.v) > 0
             THEN LooksFormatA(data.v.v[1])
             ELSE Value(FALSE)
    ELSE Value(FALSE)

\* the call detect(zip_path)
Detect ==
    /\ detect_outcome = "running"
    /\ LET result == detect(archive)
       IN  IF result.r = "raise"
           THEN detected' = FALSE /\ detect_outcome' = result.v[1]
           ELSE detected' = result.v /\ detect_outcome' = "returned"
    /\ UNCHANGED <<parseVars, slugVars, genVars, linVars, writeVars, cmdVars, projVars>>

-----------------------------------------------------------------------------
(* detect_provider (cli.py).  ChatGPTProvider.detect is in                  *)
(* providers/chatgpt.py; it is modelled from section 4.3 of the             *)
(* specification: true iff the root-level aggregate file parses as an array *)
(* whose elements carry a tree-mapping field; any error yields false.       *)

chatgpt_detect(ar) ==
    /\ ar.kind = "zip"
    /\ CONVERSATIONS_JSON \in Range(Names(ar))
    /\ LET data == JsonLoad(Content(ar, CONVERSATIONS_JSON))
       IN  /\ data.r = "value"
           /\ data.v.k = "list"
           /\ Len(data.v.v) > 0
           /\ \A i \in DOMAIN data.v.v :
                  data.v.v[i].k = "dict" /\ "mapping" \in DOMAIN data.v.v[i].v

\* (a variant of the next definition that probes the Format-B detector first)
detect_provider_chatgpt_first(ar) ==
    LET is_claude == detect(ar)
    IN  IF chatgpt_detect(ar) THEN Value("chatgpt")
        ELSE IF is_claude.r = "raise" THEN is_claude
        ELSE IF is_claude.v THEN Value("claude")
        ELSE NoneResult

\* cli.py lines 23-39; an exception of claude.detect passes through
detect_provider(ar) ==
    LET is_claude == detect(ar)
    IN  IF is_claude.r = "raise" THEN is_claude
        ELSE IF is_claude.v THEN Value("claude")
        ELSE IF chatgpt_detect(ar) THEN Value("chatgpt")
        ELSE NoneResult

\* the call detect_provider(zip_path): provider is "claude", "chatgpt",
\* "None", or the name of the exception raised
DetectProvider ==
    /\ detect_outcome # "idle" /\ pcCmd = "idle" /\ provider = "none"
    /\ LET result == detect_provider(archive)
       IN  provider' = CASE result.r = "raise" -> result.v[1]
                         [] result.r = "none"  -> "None"
                         [] OTHER              -> result.v
    /\ UNCHANGED <<command, mountpoint, temp_dir, ffs_calls, pcCmd,
                   parseVars, slugVars, genVars, linVars, detVars, writeVars, projVars>>

-----------------------------------------------------------------------------
(* ClaudeProvider.parse: the archives it is run on *)

\* a key that the JSON object does not have
ABSENT == [k |-> "absent", v |-> <<>>]

MkDict(fields) ==
    JDict([key \in {x \in DOMAIN fields : fields[x] # ABSENT} |-> fields[key]])

\* The archives: missing, not a ZIP, and ZIPs of three shapes.
\*  - conversations.json holding one record (RecordChoices): a record with
\*    every combination of its own fields, and a well-formed record with
\*    every chat_messages array made of RawMessages;
\*  - conversations.json holding several elements (ElemChoices): two records
\*    that parse, one without uuid, one with an unparsable created_at, one
\*    on which the parser raises, one that is no object;
\*  - per-conversation files under conversations/ (EntryChoices).
Archives ==
    LET ConvId1 == JStr(<<"c", "1">>)
        ConvId2 == JStr(<<"c", "2">>)
        TsZ == JStr(<<"D15T10", "Z">>)
        TsOffset == JStr(<<"D16T11", "+00:00">>)
        TsGarbage == JStr(<<"x">>)
        TsNumber == JNum(<<"1", "7">>)
        MsgData(uuid, sender, created_at) ==
            MkDict([uuid |-> uuid, sender |-> sender, text |-> JStr(<<"h", "i">>),
                    created_at |-> created_at])
        GoodMsg1 == MsgData(JStr(<<"m", "1">>), JStr(HUMAN), TsZ)
        GoodMsg2 == MsgData(JStr(<<"m", "2">>), JStr(ASSISTANT_SENDER), TsOffset)
        RawMessages ==
            {GoodMsg1, GoodMsg2,
             MsgData(ABSENT, JStr(HUMAN), TsZ),
             MsgData(JStr(<<>>), JStr(HUMAN), TsZ),
             MsgData(JStr(<<"m", "3">>), JStr(HUMAN), ABSENT),
             MsgData(JStr(<<"m", "4">>), JStr(HUMAN), TsGarbage),
             MsgData(JStr(<<"m", "5">>), JStr(HUMAN), TsNumber),
             MsgData(JStr(<<"m", "6">>), JStr(<<"tool">>), TsZ),
             MsgData(JStr(<<"m", "7">>), ABSENT, TsZ),
             MsgData(JStr(<<"m", "8">>), JList(<<>>), TsZ),
             JStr(<<"x">>)}
        ConvData(uuid, name, created_at, updated_at, chat_messages) ==
            MkDict([uuid |-> uuid, name |-> name, created_at |-> created_at,
                    updated_at |-> updated_at, chat_messages |-> chat_messages])
        ConvName == JStr(<<"T">>)
        RecordChoices ==
            {ConvData(u, n, c, up, msgs) :
                u \in {ConvId1, ABSENT, JStr(<<>>)},
                n \in {ConvName, ABSENT, JNull},
                c \in {TsZ, ABSENT, TsGarbage, TsNumber},
                up \in {TsOffset, ABSENT, JNull, TsGarbage, TsNumber},
                msgs \in {ABSENT, JList(<<GoodMsg1>>)}}
            \cup {ConvData(ConvId1, ConvName, TsZ, TsOffset, JList(msgs)) :
                    msgs \in SeqsUpTo(RawMessages, MaxMsgs)}
            \cup {ConvData(ConvId1, ConvName, TsZ, TsOffset, JNull)}
        GoodConv1 == ConvData(ConvId1, ConvName, TsZ, TsOffset, JList(<<GoodMsg1, GoodMsg2>>))
        GoodConv2 == ConvData(ConvId2, ABSENT, TsOffset, ABSENT, ABSENT)
        BadUpdated == ConvData(JStr(<<"c", "4">>), ConvName, TsZ, TsNumber, ABSENT)
        ElemChoices ==
            {GoodConv1, GoodConv2,
             ConvData(ABSENT, ConvName, TsZ, TsOffset, ABSENT),
             ConvData(JStr(<<"c", "3">>), ConvName, TsGarbage, TsOffset, ABSENT),
             BadUpdated,
             JStr(<<"x">>)}
        Entry(name, content) == [name |-> name, content |-> content]
        ConvFile(stem, content) == Entry(<<"conversations/", stem, ".json">>, content)
        EntryChoices ==
            {ConvFile("a", GoodConv1), ConvFile("b", GoodConv2), ConvFile("c", INVALID_JSON),
             ConvFile("d", BadUpdated),
             Entry(<<"readme.txt">>, INVALID_JSON)}
        Zip(entries) == [kind |-> "zip", entries |-> entries]
    IN  {[kind |-> "missing", entries |-> <<>>], [kind |-> "notzip", entries |-> <<>>],
         Zip(<<Entry(CONVERSATIONS_JSON, INVALID_JSON)>>),
         Zip(<<Entry(CONVERSATIONS_JSON, MkDict([uuid |-> ConvId1]))>>),
         Zip(<<ConvFile("a", GoodConv1), Entry(CONVERSATIONS_JSON, JList(<<GoodConv2>>))>>)}
        \cup {Zip(<<Entry(CONVERSATIONS_JSON, JList(<<rec>>))>>) : rec \in RecordChoices}
        \cup {Zip(<<Entry(CONVERSATIONS_JSON, JList(elems))>>) :
                elems \in SeqsUpTo(ElemChoices, MaxElems)}
        \cup {Zip(entries) : entries \in SeqsUpTo(EntryChoices, MaxElems)}

InitParse ==
    /\ archive \in Archives
    /\ parsed = <<>>
    /\ pIdx = 0
    /\ pcParse = "start"
    /\ outcome = "running"
    /\ IdleExcept({"parse"})

SpecParse == InitParse /\ [][NextParse]_vars

-----------------------------------------------------------------------------
(* The export command (cli.py, export): the archive is parsed, the         *)
(* conversations returned are handed to generate_fs_json, and the tree is  *)
(* written under outdir.  The archive holds no projects.json, so that      *)
(* parse_projects returns an empty list.                                   *)

\* a decoded JSON text or null as the Python value kept in the dataclass
PyStr(value) == IF value.k = "null" THEN None ELSE value.v

\* the Conversation built at claude.py lines 183-190, with the Messages of
\* lines 226-233, as generate_fs_json reads it
AsConversation(conv) ==
    [id |-> PyStr(conv.id), title |-> PyStr(conv.title),
     created_at |-> conv.created_at, updated_at |-> conv.updated_at,
     provider |-> conv.provider,
     messages |-> [i \in DOMAIN conv.messages |->
                     [id |-> PyStr(conv.messages[i].id),
                      role |-> conv.messages[i].role,
                      content |-> PyStr(conv.messages[i].content),
                      timestamp |-> conv.messages[i].timestamp]]]

\* cli.py lines 340-364: an exception of parse and an empty list end the
\* command (sys.exit(1)); otherwise generate_fs_json(conversations, []) is
\* called
ExportGenerate ==
    /\ pcParse = "done" /\ pcGen = "idle"
    /\ IF outcome # "returned" \/ parsed = <<>>
       THEN pcGen' = "exit" /\ UNCHANGED <<conversations, run>>
       ELSE /\ conversations' = [i \in DOMAIN parsed |-> AsConversation(parsed[i])]
            /\ run' = 1
            /\ pcGen' = "convs"
    /\ UNCHANGED <<projects, memories, fs, dirname_counts, dirnames, fs_first,
                   parseVars, slugVars, linVars, detVars, writeVars, cmdVars, projVars>>

\* the archives exported: conversations.json holding one record or two, or
\* one conversation file; a record has a name that is a text, absent or
\* null and no message or two messages whose text is a text, absent or null
ExportArchives ==
    LET Ts == JStr(<<"D15T10", "Z">>)
        Texts == {JStr(<<"h", "i">>), ABSENT, JNull}
        MsgData(uuid, sender, text) ==
            MkDict([uuid |-> JStr(uuid), sender |-> JStr(sender), text |-> text,
                    created_at |-> Ts])
        ConvData(uuid, name, chat_messages) ==
            MkDict([uuid |-> JStr(uuid), name |-> name, created_at |-> Ts,
                    updated_at |-> Ts, chat_messages |-> JList(chat_messages)])
        Records ==
            {ConvData(<<"c", "1">>, name, <<>>) : name \in {JStr(<<"T">>), ABSENT, JNull}}
            \cup {ConvData(<<"c", "1">>, name,
                           <<MsgData(<<"m", "1">>, HUMAN, t1),
                             MsgData(<<"m", "2">>, ASSISTANT_SENDER, t2)>>) :
                     name \in {JStr(<<"T">>), ABSENT, JNull}, t1 \in Texts, t2 \in Texts}
        Other == ConvData(<<"c", "2">>, JStr(<<"T">>),
                          <<MsgData(<<"m", "3">>, HUMAN, JStr(<<"y", "o">>))>>)
        Entry(name, content) == [name |-> name, content |-> content]
        Zip(entries) == [kind |-> "zip", entries |-> entries]
    IN  {[kind |-> "missing", entries |-> <<>>],
         Zip(<<Entry(CONVERSATIONS_JSON, INVALID_JSON)>>),
         Zip(<<Entry(CONVERSATIONS_JSON, JList(<<>>))>>)}
        \cup {Zip(<<Entry(CONVERSATIONS_JSON, JList(<<rec>>))>>) : rec \in Records}
        \cup {Zip(<<Entry(CONVERSATIONS_JSON, JList(<<Other, rec>>))>>) : rec \in Records}
        \cup {Zip(<<Entry(<<"conversations/", "a", ".json">>, rec)>>) : rec \in Records}

InitExport ==
    /\ archive \in ExportArchives
    /\ parsed = <<>>
    /\ pIdx = 0
    /\ pcParse = "start"
    /\ outcome = "running"
    /\ IdleExcept({"parse"})

NextExport ==
    \/ ParseOpen
    \/ ParseJsonElement
    \/ ParseFileEntry
    \/ ParseReturn
    \/ ExportGenerate
    \/ GenConversation
    \/ GenFinish
    \/ WriteTree

SpecExport == InitExport /\ [][NextExport]_vars

-----------------------------------------------------------------------------
(* parse_projects and parse_memories: the archives they are run on *)

\* The archives: missing, not a ZIP, and ZIPs holding projects.json or
\* memories.json.
\*  - projects.json that is not JSON, no array, or an array of one record
\*    (every combination of its own fields; a well-formed record with every
\*    docs array made of DocChoices) or of several records (ElemChoices);
\*  - memories.json that is not JSON, no array, or an array whose first
\*    element is a value of each shape.
\* A timestamp text is a body followed by "Z", "+00:00" or nothing, and
\* among the texts are some that no ISO-8601 reader accepts.
ProjectArchives ==
    LET Ts(tokens) == JStr(tokens)
        TsZ == Ts(<<"D15T10", "Z">>)
        TsOffset == Ts(<<"D16T11", "+00:00">>)
        TsNumber == JNum(<<"1", "7">>)
        TsChoices ==
            {TsZ, Ts(<<"D16T11", "Z">>), Ts(<<"D15T10", "+00:00">>), Ts(<<"D15T10">>),
             Ts(<<"D15T10", "Z", "Z">>), Ts(<<"D15T10", "+00:00", "Z">>),
             Ts(<<"Z">>), Ts(<<"x", "Z">>), Ts(<<"x">>), ABSENT, JNull, TsNumber}
        DocData(uuid, filename, created_at) ==
            MkDict([uuid |-> JStr(uuid), filename |-> filename,
                    content |-> JStr(<<"x">>), created_at |-> created_at])
        GoodDoc == DocData(<<"d", "1">>, JStr(<<"f">>), TsZ)
        DocChoices ==
            {GoodDoc,
             DocData(<<"d", "2">>, JStr(<<"g">>), ABSENT),
             DocData(<<"d", "3">>, JStr(<<"h">>), Ts(<<"x">>)),
             DocData(<<"d", "4">>, ABSENT, TsZ),
             DocData(<<"d", "5">>, JStr(<<>>), TsZ),
             DocData(<<"d", "6">>, JStr(<<"k">>), TsNumber),
             JNull}
        ProjData(uuid, description, created_at, updated_at, docs) ==
            MkDict([uuid |-> uuid, name |-> JStr(<<"N">>), description |-> description,
                    created_at |-> created_at, updated_at |-> updated_at, docs |-> docs])
        ProjId1 == JStr(<<"p", "1">>)
        Description == JStr(<<"d">>)
        RecordChoices ==
            {ProjData(u, d, c, up, ABSENT) :
                u \in {ProjId1, ABSENT, JStr(<<>>)},
                d \in {Description, ABSENT, JNull},
                c \in TsChoices,
                up \in {TsOffset, ABSENT, Ts(<<"x">>), TsNumber}}
            \cup {ProjData(ProjId1, Description, TsZ, TsOffset, JList(docs)) :
                    docs \in SeqsUpTo(DocChoices, MaxDocs)}
            \cup {ProjData(ProjId1, Description, TsZ, TsOffset, JNull)}
        Good1 == ProjData(ProjId1, Description, TsZ, TsOffset, JList(<<GoodDoc>>))
        Good2 == ProjData(JStr(<<"p", "2">>), ABSENT, TsOffset, ABSENT, ABSENT)
        ElemChoices ==
            {Good1, Good2,
             ProjData(ABSENT, Description, TsZ, TsOffset, ABSENT),
             ProjData(JStr(<<"p", "3">>), Description, Ts(<<"x">>), TsOffset, ABSENT),
             ProjData(JStr(<<"p", "4">>), Description, TsZ, TsOffset, JList(<<JNull>>)),
             JStr(<<"x">>)}
        MemData(conversations_memory, project_memories) ==
            MkDict([conversations_memory |-> conversations_memory,
                    project_memories |-> project_memories])
        Others == {JNull, TsNumber, JStr(<<"x">>), JList(<<>>)}
        Firsts ==
            Others \cup
            {MemData(c, pm) :
                c \in {JStr(<<"m">>), ABSENT, JNull, TsNumber},
                pm \in {MkDict([p1 |-> JStr(<<"v">>)]), JDict(<<>>), ABSENT, JNull,
                        JList(<<>>)}}
        Entry(name, content) == [name |-> name, content |-> content]
        Zip(entries) == [kind |-> "zip", entries |-> entries]
        ProjectFiles ==
            {INVALID_JSON, JNull, Good1}
            \cup {JList(<<rec>>) : rec \in RecordChoices}
            \cup {JList(elems) : elems \in SeqsUpTo(ElemChoices, MaxProjects)}
        MemoryFiles ==
            {INVALID_JSON, JNull, MemData(ABSENT, ABSENT), JList(<<>>)}
            \cup {JList(<<first>>) : first \in Firsts}
            \cup {JList(<<first, JNull>>) : first \in Firsts}
    IN  {[kind |-> "missing", entries |-> <<>>], [kind |-> "notzip", entries |-> <<>>],
         Zip(<<>>),
         Zip(<<Entry(<<"projects.json">>, JList(<<Good1, Good2>>)),
               Entry(<<"memories.json">>,
                     JList(<<MemData(JStr(<<"m">>), MkDict([p1 |-> JStr(<<"v">>)]))>>))>>)}
        \cup {Zip(<<Entry(<<"projects.json">>, c)>>) : c \in ProjectFiles}
        \cup {Zip(<<Entry(<<"memories.json">>, c)>>) : c \in MemoryFiles}

InitProjects ==
    /\ archive \in ProjectArchives
    /\ parsed = <<>> /\ pIdx = 0 /\ pcParse = "idle" /\ outcome = "idle"
    /\ projects_result = NotCalled
    /\ memories_result = NotCalled
    /\ IdleExcept({"parse", "proj"})

NextProjects == ParseProjects \/ ParseMemories

SpecProjects == InitProjects /\ [][NextProjects]_vars

-----------------------------------------------------------------------------
(* ClaudeProvider.detect: the archives it is run on *)

\* the archives given to parse, and ZIPs that are empty, that hold entries
\* of other names, or whose conversations.json is a value of each shape:
\* no array, an empty array, an array whose first element is a number,
\* null, a text, an array, or an object with any of the keys uuid,
\* chat_messages, mapping
DetectArchives ==
    LET Zip(entries) == [kind |-> "zip", entries |-> entries]
        Entry(name, content) == [name |-> name, content |-> content]
        Keys == {"uuid", "chat_messages", "mapping"}
        Objects == {JDict([key \in ks |-> val]) : ks \in SUBSET Keys, val \in {JNull, JList(<<>>)}}
        Firsts ==
            Objects \cup
            {JNum(<<"1", "7">>), JNull, JStr(<<"x">>), JStr(<<>>),
             JStr(<<"uuid", " ", "chat_messages">>),
             JStr(<<"uuid", " ", "chat_messages", " ", "mapping">>),
             JList(<<>>), JList(<<JStr(<<"uuid">>), JStr(<<"chat_messages">>)>>),
             JList(<<JStr(<<"uuid">>), JNum(<<"1">>)>>)}
        Aggregates ==
            {INVALID_JSON, JNull, JList(<<>>), JStr(<<"uuid">>)}
            \cup Objects
            \cup {JList(<<first>>) : first \in Firsts}
            \cup {JList(<<JStr(<<"x">>), first>>) : first \in Objects}
        Others ==
            {<<>>,
             <<Entry(<<"readme.txt">>, INVALID_JSON)>>,
             <<Entry(<<"conversations/">>, INVALID_JSON)>>,
             <<Entry(<<"conversations/", ".json">>, INVALID_JSON)>>,
             <<Entry(<<"x/", "conversations/", "a", ".json">>, JList(<<>>))>>,
             <<Entry(<<"conversations/", "a", ".txt">>, JList(<<>>))>>,
             <<Entry(<<"conversations/", "a", ".json">>, INVALID_JSON),
               Entry(CONVERSATIONS_JSON, INVALID_JSON)>>,
             <<Entry(CONVERSATIONS_JSON, JList(<<JNull>>)),
               Entry(<<"conversations/", "a", ".json">>, JNull)>>,
             <<Entry(<<"conversations/", "a", ".json">>, JNull),
               Entry(CONVERSATIONS_JSON, JList(<<JDict([mapping |-> JDict(<<>>)])>>))>>}
    IN  Archives
        \cup {Zip(<<Entry(CONVERSATIONS_JSON, a)>>) : a \in Aggregates}
        \cup {Zip(<<Entry(<<"readme.txt">>, INVALID_JSON), Entry(CONVERSATIONS_JSON, a)>>) :
                a \in Aggregates}
        \cup {Zip(entries) : entries \in Others}

InitDetect ==
    /\ archive \in DetectArchives
    /\ parsed = <<>> /\ pIdx = 0 /\ pcParse = "idle" /\ outcome = "idle"
    /\ detected = FALSE
    /\ detect_outcome = "running"
    /\ IdleExcept({"parse", "det"})

NextDetect == Detect \/ DetectProvider

SpecDetect == InitDetect /\ [][NextDetect]_vars

-----------------------------------------------------------------------------
(* Format-B linearization: the graphs it is run on, and its steps *)

\* the parent of every node of a tree of n nodes rooted at node 1
ParentMaps(n) ==
    {p \in [1 .. n -> 0 .. (n - 1)] :
        /\ p[1] = NoParent
        /\ \A i \in 2 .. n : p[i] \in 1 .. (i - 1)}

\* a child list, in any order, for each of the nodes 1 .. i
RECURSIVE ChildOrders(_, _)
ChildOrders(p, i) ==
    LET ChildrenOf == {c \in DOMAIN p : p[c] = i}
        Perms == {s \in [1 .. Cardinality(ChildrenOf) -> ChildrenOf] :
                     \A j, k \in DOMAIN s : j # k => s[j] # s[k]}
    IN  IF i = 0 THEN {<<>>}
        ELSE {Append(f, s) : f \in ChildOrders(p, i - 1), s \in Perms}

\* a node has no payload, a user message, an assistant message whose text
\* is whitespace-only, or a message of an author role that is not retained
Graph(p, orders, kinds) ==
    LET Payload(n, kind) ==
            LET TextPart(text) == [k |-> "str", v |-> text]
                ImagePart == [k |-> "dict", v |-> <<>>]
            IN  IF kind = "none" THEN NoMessage
                ELSE IF kind = "text"
                THEN [present |-> TRUE, id |-> n, role |-> USER,
                      parts |-> <<TextPart(<<"h">>), ImagePart, TextPart(<<"i">>)>>]
                ELSE IF kind = "blank"
                THEN [present |-> TRUE, id |-> n, role |-> ASSISTANT,
                      parts |-> <<TextPart(<<" ">>), ImagePart>>]
                ELSE [present |-> TRUE, id |-> n, role |-> TOOL, parts |-> <<TextPart(<<"x">>)>>]
    IN  [i \in DOMAIN p |-> [message |-> Payload(i, kinds[i]),
                             parent |-> p[i],
                             children |-> orders[i]]]

InitLinearize ==
    /\ \E n \in 1 .. MaxNodes :
          \E p \in ParentMaps(n) :
              \E orders \in ChildOrders(p, n), kinds \in [1 .. n -> {"none", "text", "blank", "tool"}] :
                  mapping = Graph(p, orders, kinds)
    /\ node_id = NoParent
    /\ linear = <<>>
    /\ linearized = <<>>
    /\ pcLin = "start"
    /\ IdleExcept({"lin"})

\* identify the root
LinStart ==
    /\ pcLin = "start"
    /\ node_id' = Root(mapping)
    /\ pcLin' = "walk"
    /\ UNCHANGED <<mapping, linear, linearized, slugVars, genVars, parseVars, detVars, writeVars, cmdVars, projVars>>

\* visit one node: collect its payload, descend into the first child
LinVisit ==
    /\ pcLin = "walk"
    /\ linear' = Collect(linear, mapping[node_id])
    /\ IF mapping[node_id].children = <<>>
       THEN pcLin' = "filter" /\ UNCHANGED node_id
       ELSE node_id' = FirstChild(mapping[node_id].children) /\ UNCHANGED pcLin
    /\ UNCHANGED <<mapping, linearized, slugVars, genVars, parseVars, detVars, writeVars, cmdVars, projVars>>

\* after linearization: drop the empty messages and the unrecognized roles
LinFilter ==
    /\ pcLin = "filter"
    /\ linearized' = SelectSeq(linear, Retained)
    /\ pcLin' = "done"
    /\ UNCHANGED <<mapping, node_id, linear, slugVars, genVars, parseVars, detVars, writeVars, cmdVars, projVars>>

NextLinearize == LinStart \/ LinVisit \/ LinFilter

SpecLinearize == InitLinearize /\ [][NextLinearize]_vars

-----------------------------------------------------------------------------
(* The commands mount and export (cli.py).  mount.py and                    *)
(* providers/chatgpt.py are not among the sources: the availability checks, *)
(* create_temp_dir, cleanup_temp_dir and the external mounter are modelled  *)
(* by their outcomes (they succeed or fail), and ChatGPTProvider.parse from *)
(* section 4.3 of the specification (it returns a list and never raises).   *)

\* mount lines 131-157, export lines 330-337: the availability checks, the
\* provider given or detected, the mountpoint.  An exception of
\* detect_provider is caught nowhere; provider_instance.parse is called next.
CmdSelectProvider ==
    /\ pcCmd = "start"
    /\ \E available \in BOOLEAN :
          LET detection == detect_provider(archive)
              selected == IF provider = "auto" /\ detection.r = "value"
                          THEN detection.v ELSE provider
          IN  /\ pcCmd' = CASE command = "mount" /\ ~available -> "error"
                            [] provider = "auto" /\ detection.r = "raise" -> "crash"
                            [] provider = "auto" /\ detection.r = "none" -> "error"
                            [] OTHER -> "parse"
              /\ provider' = IF pcCmd' = "parse" THEN selected ELSE provider
              /\ mountpoint' = IF pcCmd' = "parse" /\ mountpoint = "absent"
                               THEN "created" ELSE mountpoint
              /\ pcParse' = IF pcCmd' = "parse" /\ selected = "claude"
                            THEN "start" ELSE pcParse
              /\ outcome' = IF pcCmd' = "parse" THEN "running" ELSE outcome
    /\ UNCHANGED <<command, temp_dir, ffs_calls, archive, parsed, pIdx,
                   slugVars, genVars, linVars, detVars, writeVars, projVars>>

\* ChatGPTProvider.parse(zip_path): a list of conversations, empty or not
ParseChatGPT ==
    /\ pcCmd = "parse" /\ provider = "chatgpt" /\ pcParse = "idle"
    /\ parsed' \in {<<>>,
                    <<[id |-> JStr(<<"g", "1">>), title |-> JStr(<<"T">>),
                       created_at |-> [y |-> 2024, m |-> 1, d |-> 15, h |-> 10, tz |-> "utc"],
                       updated_at |-> [y |-> 2024, m |-> 1, d |-> 15, h |-> 10, tz |-> "utc"],
                       provider |-> "chatgpt", messages |-> <<>>]>>}
    /\ pcParse' = "done"
    /\ outcome' = "returned"
    /\ UNCHANGED <<archive, pIdx, slugVars, genVars, linVars, detVars, writeVars,
                   cmdVars, projVars>>

\* (a variant of the next definition that goes on with an empty list)
CmdParsedNoWarning ==
    /\ pcCmd = "parse" /\ pcParse = "done" /\ pcGen = "idle"
    /\ pcCmd' = IF outcome # "returned" THEN "error" ELSE "generate"
    /\ pcGen' = IF outcome # "returned" THEN pcGen ELSE "convs"
    /\ run' = IF outcome # "returned" THEN run ELSE 1
    /\ conversations' = [i \in DOMAIN parsed |-> AsConversation(parsed[i])]
    /\ UNCHANGED <<projects, memories, fs, dirname_counts, dirnames, fs_first,
                   command, provider, mountpoint, temp_dir, ffs_calls,
                   parseVars, slugVars, linVars, detVars, writeVars, projVars>>

\* mount lines 163-180, export lines 343-360: an exception of parse ends
\* the command with an error, an empty list with a warning (sys.exit(1) is
\* no Exception); otherwise parse_projects is called for the claude
\* provider and generate_fs_json(conversations, projects) is entered
CmdParsed ==
    /\ pcCmd = "parse" /\ pcParse = "done" /\ pcGen = "idle"
    /\ IF outcome # "returned" \/ parsed = <<>>
       THEN /\ pcCmd' = IF outcome # "returned" THEN "error" ELSE "warned"
            /\ UNCHANGED <<conversations, projects, pcGen, run, projects_result>>
       ELSE /\ conversations' = [i \in DOMAIN parsed |-> AsConversation(parsed[i])]
            /\ IF provider = "claude"
               THEN \E hour \in {12, 13} :
                      LET now == [y |-> 2025, m |-> 6, d |-> 1, h |-> hour, tz |-> "utc"]
                          found == parse_projects(archive, now)
                          AsDoc(doc) ==
                              [id |-> PyStr(doc.id), filename |-> PyStr(doc.filename),
                               content |-> PyStr(doc.content), created_at |-> doc.created_at]
                          AsProject(proj) ==
                              [id |-> PyStr(proj.id), name |-> PyStr(proj.name),
                               description |-> PyStr(proj.description),
                               created_at |-> proj.created_at,
                               updated_at |-> proj.updated_at,
                               docs |-> [j \in DOMAIN proj.docs |-> AsDoc(proj.docs[j])]]
                      IN  /\ projects_result' = Value(found)
                          /\ projects' = [i \in DOMAIN found |-> AsProject(found[i])]
               ELSE UNCHANGED <<projects, projects_result>>
            /\ run' = 1
            /\ pcGen' = "convs"
            /\ pcCmd' = "generate"
    /\ UNCHANGED <<memories, fs, dirname_counts, dirnames, fs_first, memories_result,
                   command, provider, mountpoint, temp_dir, ffs_calls,
                   parseVars, slugVars, linVars, detVars, writeVars>>

\* mount lines 191-193, export lines 366-368: an exception of
\* generate_fs_json ends the command
GenerateFailed ==
    /\ pcCmd = "generate" /\ pcGen = "TypeError"
    /\ pcCmd' = "error"
    /\ UNCHANGED <<command, provider, mountpoint, temp_dir, ffs_calls,
                   parseVars, slugVars, genVars, linVars, detVars, writeVars, projVars>>

\* mount lines 185-193: create_temp_dir, then open and json.dump; an
\* exception of either ends the command (sys.exit(1) at line 193) with the
\* directory, if it was created, left as it is
MountWriteJson ==
    /\ command = "mount" /\ pcCmd = "generate" /\ pcGen = "done"
    /\ \E raises \in {"create_temp_dir", "json.dump", "nothing"} :
          /\ temp_dir' = IF raises = "create_temp_dir" THEN temp_dir ELSE "exists"
          /\ pcCmd' = IF raises = "nothing" THEN "mounting" ELSE "error"
    /\ UNCHANGED <<command, provider, mountpoint, ffs_calls,
                   parseVars, slugVars, genVars, linVars, detVars, writeVars, projVars>>

\* mount lines 196-207: the external mounter; when it raises,
\* cleanup_temp_dir(temp_dir) is called before the exit
MountFfs ==
    /\ command = "mount" /\ pcCmd = "mounting"
    /\ ffs_calls' = ffs_calls + 1
    /\ \E mounted \in BOOLEAN :
          /\ temp_dir' = IF mounted THEN temp_dir ELSE "removed"
          /\ pcCmd' = IF mounted THEN "mounted" ELSE "error"
    /\ UNCHANGED <<command, provider, mountpoint,
                   parseVars, slugVars, genVars, linVars, detVars, writeVars, projVars>>

\* the runs of the two commands: the provider option, a mountpoint that
\* exists or not, and an archive that is missing or a ZIP whose
\* conversations.json is not JSON, an empty array, an array of null, an
\* array of one Format-B record, or an array of one Format-A record (alone,
\* or beside a projects.json of one project, named or with the name null),
\* or that holds one conversation file that is null
InitCommand ==
    /\ LET Ts == JStr(<<"D15T10", "Z">>)
           Zip(entries) == [kind |-> "zip", entries |-> entries]
           Entry(name, content) == [name |-> name, content |-> content]
           Good == MkDict([uuid |-> JStr(<<"c", "1">>), name |-> JStr(<<"T">>),
                           created_at |-> Ts, updated_at |-> Ts,
                           chat_messages |->
                               JList(<<MkDict([uuid |-> JStr(<<"m", "1">>),
                                               sender |-> JStr(HUMAN),
                                               text |-> JStr(<<"h", "i">>),
                                               created_at |-> Ts])>>)])
           Project(name) ==
               MkDict([uuid |-> JStr(<<"p", "1">>), name |-> name, created_at |-> Ts,
                       docs |-> JList(<<MkDict([uuid |-> JStr(<<"d", "1">>),
                                                filename |-> JStr(<<"x", ".", "m">>),
                                                content |-> JStr(<<"x">>)])>>)])
           Aggregate(content) == Entry(CONVERSATIONS_JSON, content)
       IN  archive \in
             {[kind |-> "missing", entries |-> <<>>],
              Zip(<<Aggregate(INVALID_JSON)>>),
              Zip(<<Aggregate(JList(<<>>))>>),
              Zip(<<Aggregate(JList(<<JNull>>))>>),
              Zip(<<Aggregate(JList(<<JDict([mapping |-> JDict(<<>>)])>>))>>),
              Zip(<<Aggregate(JList(<<Good>>))>>),
              Zip(<<Entry(<<"conversations/", "a", ".json">>, JNull)>>)}
             \cup {Zip(<<Aggregate(JList(<<Good>>)),
                         Entry(<<"projects.json">>, JList(<<Project(name)>>))>>) :
                      name \in {JStr(<<"N">>), JNull}}
    /\ parsed = <<>> /\ pIdx = 0 /\ pcParse = "idle" /\ outcome = "idle"
    /\ command \in {"mount", "export"}
    /\ provider \in {"auto", "claude", "chatgpt"}
    /\ mountpoint \in IF command = "mount" THEN {"absent", "exists"} ELSE {"none"}
    /\ temp_dir = "none"
    /\ ffs_calls = 0
    /\ pcCmd = "start"
    /\ IdleExcept({"parse", "cmd"})

SpecCommand ==
    InitCommand
    /\ [][\/ CmdSelectProvider
          \/ ParseOpen \/ ParseJsonElement \/ ParseFileEntry \/ ParseReturn
          \/ ParseChatGPT
          \/ CmdParsed
          \/ GenConversation \/ GenFinish
          \/ GenerateFailed
          \/ WriteTree
          \/ MountWriteJson
          \/ MountFfs]_vars

-----------------------------------------------------------------------------
(* Properties of slugify *)

\* ^[a-z0-9]+(-[a-z0-9]+)*$
MatchesSlugPattern(s) ==
    /\ s # <<>>
    /\ \A i \in DOMAIN s : IsAlnum(s[i]) \/ s[i] = "-"
    /\ s[1] # "-"
    /\ s[Len(s)] # "-"
    /\ \A i \in 1 .. (Len(s) - 1) : ~(s[i] = "-" /\ s[i + 1] = "-")

\* C3: slugify returns for every title and max_len, and what it returns is
\* "untitled" or a non-empty string matching ^[a-z0-9]+(-[a-z0-9]+)*$.
C3_SlugShape ==
    pcSlug # "input" => (slug = Untitled \/ MatchesSlugPattern(slug))

\* C3 witness: a title with a non-ASCII letter, an upper-case letter and a
\* space, longer than max_len once normalized, was cut to a slug that is not
\* the fallback token.
C3_Witness ==
    /\ pcSlug = "slugified"
    /\ "E_acute" \in Range(title) /\ " " \in Range(title) /\ "B" \in Range(title)
    /\ Len(NormalizedSlug(title)) > max_len
    /\ slug # Untitled
    /\ MatchesSlugPattern(slug)

\* C4: the length of slugify(title, max_len) is at most max_len, the
\* fallback token included.
C4_LengthAtMostMaxLen ==
    pcSlug # "input" => Len(slug) <= max_len

\* C5: slugify(slugify(title, max_len), max_len) = slugify(title, max_len).
C5_Idempotent ==
    pcSlug = "reslugified" => slug2 = slug

\* r is a prefix of n that stops inside one of n's segments
SplitsWord(r, n) ==
    /\ r # <<>>
    /\ Len(r) < Len(n)
    /\ SubSeq(n, 1, Len(r)) = r
    /\ r[Len(r)] # "-"
    /\ n[Len(r) + 1] # "-"

\* C6: when the normalized slug is longer than max_len, slugify never splits
\* a word: the result never ends in a proper prefix of a segment of the
\* normalized slug.
C6_NoSplitWord ==
    (pcSlug # "input" /\ Len(NormalizedSlug(title)) > max_len)
        => ~SplitsWord(slug, NormalizedSlug(title))

-----------------------------------------------------------------------------
(* Properties of generate_fs_json *)

\* the name the i-th conversation is to get: its base name when it is the
\* first with that base name, the base name followed by _k when it is the k-th
ExpectedDirname(i) ==
    LET base == generate_dirname(conversations[i])
        k == Cardinality({j \in 1 .. i : generate_dirname(conversations[j]) = base})
    IN  IF k = 1 THEN base ELSE base \o UNDERSCORE \o DecStr(k)

\* C1: the resolved conversation directory names are pairwise distinct; the
\* first conversation with a base name keeps it, the k-th (k >= 2) gets the
\* base name followed by _k; in the returned tree each name holds the
\* directory of its own conversation.
C1_DistinctDirnames ==
    /\ \A i \in DOMAIN dirnames : dirnames[i] = ExpectedDirname(i)
    /\ \A i, j \in DOMAIN dirnames : i # j => dirnames[i] # dirnames[j]
    /\ pcGen = "done" =>
          \A i \in DOMAIN dirnames :
              /\ dirnames[i] \in DOMAIN fs
              /\ fs[dirnames[i]][METADATA_JSON][<<"json">>].id = DumpStr(conversations[i].id)

\* C1 witness: three conversations of one base name (from two different
\* titles) were given the base name, _2 and _3, beside projects and memories.
C1_Witness ==
    /\ pcGen = "done"
    /\ Len(conversations) = 3
    /\ conversations[1].title # conversations[2].title
    /\ dirnames[2] = dirnames[1] \o <<"_", "2">>
    /\ dirnames[3] = dirnames[1] \o <<"_", "3">>
    /\ PROJECTS_DIR \in DOMAIN fs

-----------------------------------------------------------------------------
(* Properties of the Format-B linearization *)

\* the nodes from n up to the root
RECURSIVE AncestorsOrSelf(_)
AncestorsOrSelf(n) ==
    IF mapping[n].parent = NoParent THEN {n}
    ELSE {n} \cup AncestorsOrSelf(mapping[n].parent)

Depth(n) == Cardinality(AncestorsOrSelf(n))

\* n is on the path from the root that takes the first entry of every child
\* list: n and each of its ancestors is the root or a first child
OnFirstChildPath(n) ==
    \A a \in AncestorsOrSelf(n) :
        \/ mapping[a].parent = NoParent
        \/ mapping[mapping[a].parent].children[1] = a

\* seq holds the payloads of exactly the nodes in S, from the root downwards
IsPayloadsOf(seq, S) ==
    /\ {seq[i].id : i \in DOMAIN seq} = S
    /\ \A i \in DOMAIN seq : seq[i] = mapping[seq[i].id].message
    /\ \A i, j \in DOMAIN seq : i < j => Depth(seq[i].id) < Depth(seq[j].id)

\* C2: the message sequence is the payloads met on the path from the root
\* that descends into the first child of every child list, in that order
\* (less the messages dropped afterwards for an empty text or an
\* unrecognized role); no payload of another sibling branch is in it.
C2_FirstChildPath ==
    /\ pcLin \in {"walk", "filter", "done"} =>
          \A i \in DOMAIN linear : OnFirstChildPath(linear[i].id)
    /\ pcLin \in {"filter", "done"} =>
          IsPayloadsOf(linear, {n \in DOMAIN mapping :
                                   OnFirstChildPath(n) /\ mapping[n].message.present})
    /\ pcLin = "done" =>
          IsPayloadsOf(linearized, {n \in DOMAIN mapping :
                                       /\ OnFirstChildPath(n)
                                       /\ mapping[n].message.present
                                       /\ Retained(mapping[n].message)})

\* C2 witness: under a root without payload a node has two children with
\* user messages, the first of its child list being the one of the larger
\* identifier; the first child's message was returned and the other's not.
C2_Witness ==
    /\ pcLin = "done"
    /\ ~mapping[Root(mapping)].message.present
    /\ \E n \in DOMAIN mapping :
          /\ OnFirstChildPath(n)
          /\ Len(mapping[n].children) = 2
          /\ mapping[n].children[1] > mapping[n].children[2]
          /\ \A k \in 1 .. 2 : Retained(mapping[mapping[n].children[k]].message)
          /\ \E i \in DOMAIN linearized : linearized[i].id = mapping[n].children[1]
          /\ \A i \in DOMAIN linearized : linearized[i].id # mapping[n].children[2]

-----------------------------------------------------------------------------
(* Properties of ClaudeProvider.parse *)

\* the archive holds a conversations.json that decodes to an array
HasJsonArray ==
    /\ archive.kind = "zip"
    /\ CONVERSATIONS_JSON \in Range(Names(archive))
    /\ Content(archive, CONVERSATIONS_JSON).k = "list"

\* the archive is a ZIP without conversations.json
HasFilesOnly ==
    archive.kind = "zip" /\ CONVERSATIONS_JSON \notin Range(Names(archive))

JsonArray == Content(archive, CONVERSATIONS_JSON).v

Field(d, key) == IF key \in DOMAIN d.v THEN d.v[key] ELSE ABSENT

\* the texts that are ISO-8601 timestamps
IsoTexts ==
    UNION {{<<b>>, <<b, "Z">>, <<b, "+00:00">>} : b \in IsoBodies}

ParsableTs(x) == x.k = "str" /\ x.v \in IsoTexts

HasId(d) == Field(d, "uuid").k = "str" /\ Field(d, "uuid").v # <<>>

\* a message entry with identifier, known sender and parsable timestamp
ValidMessage(msg) ==
    /\ msg.k = "dict"
    /\ HasId(msg)
    /\ Field(msg, "sender") \in {JStr(HUMAN), JStr(ASSISTANT_SENDER)}
    /\ ParsableTs(Field(msg, "created_at"))

\* a message entry without identifier or whose timestamp cannot be parsed
DefectiveMessage(msg) ==
    /\ msg.k = "dict"
    /\ ~HasId(msg) \/ ~ParsableTs(Field(msg, "created_at"))

Ids(records) == [i \in DOMAIN records |-> records[i].id]
Uuids(entries) == [i \in DOMAIN entries |-> Field(entries[i], "uuid")]

\* C7: parse never raises to its caller: it returns a list for every
\* archive, and the list is empty when the archive cannot be read or its
\* conversations.json is not a JSON array.
C7_ParseNeverRaises ==
    pcParse = "done" =>
        /\ outcome = "returned"
        /\ (archive.kind # "zip" \/ (~HasJsonArray /\ ~HasFilesOnly)) => parsed = <<>>

\* a record that parses when its messages do: identifier, parsable
\* timestamps, and an array of message entries each valid or defective
WellFormedButMessages(rec) ==
    /\ rec.k = "dict"
    /\ HasId(rec)
    /\ ParsableTs(Field(rec, "created_at"))
    /\ ParsableTs(Field(rec, "updated_at"))
    /\ Field(rec, "chat_messages").k = "list"
    /\ \A i \in DOMAIN Field(rec, "chat_messages").v :
          LET msg == Field(rec, "chat_messages").v[i]
          IN  ValidMessage(msg) \/ DefectiveMessage(msg)

\* C8: a message entry without a non-empty identifier or with a timestamp
\* that cannot be parsed, whatever its value, removes only that message:
\* the conversation is returned with its valid messages in their order.
C8_BadMessageDropsOnlyItself ==
    (pcParse = "done" /\ HasJsonArray) =>
        \A i \in DOMAIN JsonArray :
            WellFormedButMessages(JsonArray[i]) =>
                \E k \in DOMAIN parsed :
                    /\ parsed[k].id = Field(JsonArray[i], "uuid")
                    /\ Ids(parsed[k].messages) =
                           Uuids(SelectSeq(Field(JsonArray[i], "chat_messages").v, ValidMessage))

IsValue(result) == result.r = "value"

\* what each element of the array, or each entry of the ZIP, parses to
ElementResults ==
    IF HasJsonArray
    THEN [i \in DOMAIN JsonArray |-> _parse_conversation_data(JsonArray[i])]
    ELSE [i \in DOMAIN archive.entries |->
            IF IsConversationFile(archive.entries[i].name)
            THEN _parse_conversation_file(archive.entries[i])
            ELSE NoneResult]

Successes(results) ==
    LET kept == SelectSeq(results, IsValue)
    IN  [i \in DOMAIN kept |-> kept[i].v]

\* C9: the list parse returns is the subsequence, in input order, of the
\* elements that parse; an element that fails (returns None or raises) is
\* skipped and never keeps parse from returning the others.
C9_OrderPreservingIsolation ==
    /\ pcParse \in {"json_loop", "files_loop"} =>
          parsed = Successes(SubSeq(ElementResults, 1, pIdx - 1))
    /\ (pcParse = "done" /\ (HasJsonArray \/ HasFilesOnly)) =>
          /\ outcome = "returned"
          /\ parsed = Successes(ElementResults)

\* C9 witness: of three elements the second made the parser raise, and the
\* first and the third were returned, in that order.
C9_Witness ==
    /\ pcParse = "done" /\ outcome = "returned"
    /\ HasJsonArray
    /\ Len(JsonArray) = 3
    /\ ElementResults[2].r = "raise"
    /\ Len(parsed) = 2
    /\ parsed[1].id = JStr(<<"c", "1">>) /\ parsed[2].id = JStr(<<"c", "2">>)

\* a conversation record whose messages are absent or all valid
RecordWithValidMessages(rec) ==
    /\ rec.k = "dict"
    /\ \/ Field(rec, "chat_messages") = ABSENT
       \/ /\ Field(rec, "chat_messages").k = "list"
          /\ \A i \in DOMAIN Field(rec, "chat_messages").v :
                ValidMessage(Field(rec, "chat_messages").v[i])

Qualifies(rec) == HasId(rec) /\ ParsableTs(Field(rec, "created_at"))

\* C10: a conversation record is returned exactly when it has a non-empty
\* identifier and a parsable creation timestamp; the title is "Untitled"
\* when the record has none, and updated_at equals created_at when the
\* record's updated timestamp is absent or cannot be parsed.
C10_RecordReturnedExactlyWhen ==
    (/\ pcParse = "done"
     /\ HasJsonArray
     /\ \A i \in DOMAIN JsonArray : RecordWithValidMessages(JsonArray[i])) =>
        LET q == SelectSeq(JsonArray, Qualifies)
        IN  /\ Ids(parsed) = Uuids(q)
            /\ \A k \in DOMAIN q :
                  /\ Field(q[k], "name") = ABSENT => parsed[k].title = JStr(UNTITLED_TITLE)
                  /\ ~ParsableTs(Field(q[k], "updated_at")) =>
                        parsed[k].updated_at = parsed[k].created_at

-----------------------------------------------------------------------------
(* Properties of ClaudeProvider.detect *)

\* reading or decoding the archive fails: no file, no ZIP, or a
\* conversations.json that has to be read and is not JSON
ReadFails ==
    \/ archive.kind # "zip"
    \/ /\ \A i \in DOMAIN archive.entries : ~IsConversationFile(archive.entries[i].name)
       /\ CONVERSATIONS_JSON \in Range(Names(archive))
       /\ Content(archive, CONVERSATIONS_JSON).k = "invalid"

\* C11: detect never raises: for every archive it returns a boolean, and it
\* returns false whenever reading or decoding the archive fails.
C11_DetectNeverRaises ==
    detect_outcome # "running" =>
        /\ detect_outcome = "returned"
        /\ ReadFails => ~detected

\* (a) an entry under conversations/ with a .json extension
HasConversationFile ==
    /\ archive.kind = "zip"
    /\ \E i \in DOMAIN archive.entries : IsConversationFile(archive.entries[i].name)

\* (b) a root conversations.json that is a non-empty array whose first
\* element is an object with uuid and chat_messages and without mapping
HasFormatAAggregate ==
    /\ HasJsonArray
    /\ JsonArray # <<>>
    /\ JsonArray[1].k = "dict"
    /\ "uuid" \in DOMAIN JsonArray[1].v
    /\ "chat_messages" \in DOMAIN JsonArray[1].v
    /\ "mapping" \notin DOMAIN JsonArray[1].v

\* C12: detect returns true exactly when the archive has (a) or (b), and
\* false in every other case.
C12_DetectExactly ==
    detect_outcome = "returned" =>
        (detected <=> (HasConversationFile \/ HasFormatAAggregate))


-----------------------------------------------------------------------------
(* Properties of the projection of parsed archives *)

\* C13: the Projector is total over parser output: whatever list of
\* conversations the Format-A parser returned from the archive, records with
\* a null title or a null message text included, generate_fs_json raises
\* nothing on it (it is still running, or it has returned a tree).
C13_ProjectorTotal ==
    (outcome = "returned" /\ pcGen \notin {"idle", "exit"}) => pcGen \in {"convs", "done"}


-----------------------------------------------------------------------------
(* Properties of the tree of generate_fs_json *)

\* the three decimal digits of i < 1000
ThreeDigits(i) ==
    <<DigitSeq[(i \div 100) + 1], DigitSeq[((i \div 10) % 10) + 1], DigitSeq[(i % 10) + 1]>>

\* the name the j-th message of conv is to have
ExpectedMessageName(conv, j) ==
    ThreeDigits(j) \o <<"_">> \o conv.messages[j].role \o <<".", "m", "d">>

\* C14: the directory of a conversation with n messages holds exactly
\* _metadata.json and n message leaves; the j-th message is the leaf named
\* by its index padded to three digits, an underscore, its role and ".md",
\* the leaf holds the message text unchanged, and message_count in
\* _metadata.json is n.
C14_ConversationDirectory ==
    \A i \in DOMAIN dirnames :
        LET conv == conversations[i]
            dir == fs[dirnames[i]]
            n == Len(conv.messages)
        IN  /\ DOMAIN dir = {<<"_","m","e","t","a","d","a","t","a",".","j","s","o","n">>}
                                \cup {ExpectedMessageName(conv, j) : j \in 1 .. n}
            /\ Cardinality(DOMAIN dir) = n + 1
            /\ \A j \in 1 .. n :
                  dir[ExpectedMessageName(conv, j)] = TextLeaf(conv.messages[j].content)
            /\ dir[METADATA_JSON][<<"json">>].message_count = [k |-> "num", v |-> DecStr(n)]

\* C14 witness: a conversation with three messages of two roles has its
\* four leaves in the returned tree, the second message under 002_assistant.md
C14_Witness ==
    /\ pcGen = "done"
    /\ \E i \in DOMAIN dirnames :
          /\ Len(conversations[i].messages) = 3
          /\ Cardinality(DOMAIN fs[dirnames[i]]) = 4
          /\ <<"0","0","2","_","a","s","s","i","s","t","a","n","t",".","m","d">>
                 \in DOMAIN fs[dirnames[i]]

\* the name the i-th project is to get inside _projects, from the names of
\* the projects alone: the slug of its name when it is the first of that
\* slug, the slug followed by _k when it is the k-th
ExpectedProjectDirname(i) ==
    LET base == slugify(projects[i].name, 50)
        k == Cardinality({j \in 1 .. i : slugify(projects[j].name, 50) = base})
    IN  IF k = 1 THEN base ELSE base \o <<"_">> \o DecStr(k)

\* the directory of the i-th project in the returned tree
ProjectDirectory(i) == fs[PROJECTS_DIR][ExpectedProjectDirname(i)]

\* filename with _N before its last dot (or, for a filename that has no dot
\* or ends in one, at its end)
WithNumber(filename, N) ==
    LET dots == {i \in DOMAIN filename : filename[i] = "."}
        suffix == <<"_">> \o DecStr(N)
        last == Max(dots)
    IN  IF dots = {} THEN {filename \o suffix}
        ELSE {SubSeq(filename, 1, last - 1) \o suffix \o SubSeq(filename, last, Len(filename))}
                 \cup (IF last = Len(filename) THEN {filename \o suffix} ELSE {})

\* C15: in a project directory every document has its own leaf, for any
\* sequence of filenames: there are as many document leaves as documents
\* and as doc_count says; a document is stored under its filename, or, when
\* that name is taken, under the filename with _N (N >= 2) before its last
\* dot-delimited extension, or at its end when it has no extension.
C15_OwnLeafPerDocument ==
    pcGen = "done" =>
        \A p \in DOMAIN projects :
            LET dir == ProjectDirectory(p)
                docs == projects[p].docs
                leaves == DOMAIN dir \ {METADATA_JSON}
            IN  /\ Cardinality(leaves) = Len(docs)
                /\ dir[METADATA_JSON][<<"json">>].doc_count = [k |-> "num", v |-> DecStr(Len(docs))]
                /\ \A j \in DOMAIN docs :
                      \E name \in leaves :
                          /\ dir[name] = TextLeaf(docs[j].content)
                          /\ \/ name = docs[j].filename
                             \/ /\ docs[j].filename \in DOMAIN dir
                                /\ \E N \in 2 .. (Len(docs) + 2) :
                                      name \in WithNumber(docs[j].filename, N)

\* C16: directory names are resolved in each namespace on its own: inside
\* _projects the i-th project has the name that follows from the ordered
\* project names alone (the first of a slug unsuffixed, the k-th with _k),
\* the names are pairwise distinct and _projects holds nothing else but its
\* index, whatever conversations, documents and memories there are; the
\* conversation directories have the names that follow from the
\* conversations alone, whatever projects there are.
C16_NamespacesIndependent ==
    pcGen = "done" =>
        /\ projects # <<>> =>
              /\ \A i \in DOMAIN projects :
                    /\ ExpectedProjectDirname(i) \in DOMAIN fs[PROJECTS_DIR]
                    /\ ProjectDirectory(i)[METADATA_JSON][<<"json">>].id
                           = DumpStr(projects[i].id)
              /\ \A i, j \in DOMAIN projects :
                    i # j => ExpectedProjectDirname(i) # ExpectedProjectDirname(j)
              /\ DOMAIN fs[PROJECTS_DIR]
                     = {ExpectedProjectDirname(i) : i \in DOMAIN projects} \cup {INDEX_JSON}
        /\ \A i \in DOMAIN conversations : dirnames[i] = ExpectedDirname(i)
        /\ DOMAIN fs \ {PROJECTS_DIR, MEMORIES_DIR, INDEX_JSON}
               = {ExpectedDirname(i) : i \in DOMAIN conversations}

\* C16 witness: three projects of one slug (from two names) have the
\* directories a, a_2 and a_3 beside a conversation of the same slug and the
\* memories of a project of that name.
C16_Witness ==
    /\ pcGen = "done"
    /\ Len(projects) = 3
    /\ projects[1].name # projects[2].name
    /\ {<<"a">>, <<"a", "_", "2">>, <<"a", "_", "3">>} \subseteq DOMAIN fs[PROJECTS_DIR]
    /\ \E i \in DOMAIN conversations : slugify(conversations[i].title, 50) = <<"a">>
    /\ MEMORIES_DIR \in DOMAIN fs

\* two trees have the same entry names at every level and the same leaf
\* contents, but for the generated_at field of their documents
RECURSIVE SameButGeneratedAt(_, _)
SameButGeneratedAt(a, b) ==
    /\ DOMAIN a = DOMAIN b
    /\ IF DOMAIN a = {<<"json">>}
       THEN LET da == a[<<"json">>]
                db == b[<<"json">>]
            IN  /\ DOMAIN da = DOMAIN db
                /\ \A field \in DOMAIN da \ {"generated_at"} : da[field] = db[field]
       ELSE IF DOMAIN a = {<<"text">>}
       THEN a = b
       ELSE \A name \in DOMAIN a : SameButGeneratedAt(a[name], b[name])

\* C17: projection keeps no state between runs: a second call of
\* generate_fs_json on the same model, after the first in the same process,
\* returns a tree with the same entry names at every level and the same
\* leaf contents as the first, but for the generated_at fields.
C17_SameTreeOnSecondRun ==
    (run = 2 /\ pcGen = "done") => SameButGeneratedAt(fs_first, fs)

\* C17 witness: the second call has returned, on a model with two
\* conversations of one base name and with projects, and its tree differs
\* from the first in generated_at.
C17_Witness ==
    /\ run = 2 /\ pcGen = "done"
    /\ fs # fs_first
    /\ Len(dirnames) >= 2 /\ dirnames[2] = dirnames[1] \o <<"_", "2">>
    /\ PROJECTS_DIR \in DOMAIN fs

\* the root index agrees with the tree: the conversation count is the number
\* of conversations given and of conversation directories; the list has one
\* entry per conversation, in input order, whose fields are those of the
\* conversation's _metadata.json; the project count and the project
\* summaries are there exactly when projects are given
IndexConsistent(fields) ==
    pcGen = "done" =>
        LET index == fs[INDEX_JSON][<<"json">>]
            Num(n) == [k |-> "num", v |-> DecStr(n)]
        IN  /\ index.conversation_count = Num(Len(conversations))
            /\ Cardinality(DOMAIN fs \ {PROJECTS_DIR, MEMORIES_DIR, INDEX_JSON})
                   = Len(conversations)
            /\ Len(index.conversations) = Len(conversations)
            /\ \A i \in DOMAIN conversations :
                  LET entry == index.conversations[i]
                      metadata == fs[dirnames[i]][METADATA_JSON][<<"json">>]
                  IN  /\ entry.id = DumpStr(conversations[i].id)
                      /\ \A field \in fields :
                            field \in DOMAIN entry /\ entry[field] = metadata[field]
            /\ "project_count" \in DOMAIN index <=> projects # <<>>
            /\ "projects" \in DOMAIN index <=> projects # <<>>
            /\ projects # <<>> =>
                  /\ index.project_count = Num(Len(projects))
                  /\ Len(index.projects) = Len(projects)
                  /\ \A i \in DOMAIN projects :
                        index.projects[i].id = DumpStr(projects[i].id)

\* C18 (as stated): the root _index.json agrees with the tree, each entry of
\* its conversation list carrying the identifier, title, created and updated
\* timestamps, provider and message count of the conversation's
\* _metadata.json.
C18_IndexConsistent ==
    IndexConsistent({"id", "title", "created_at", "updated_at", "provider", "message_count"})

\* C18 (amended): the root _index.json agrees with the tree, each entry of
\* its conversation list carrying the identifier, title, created timestamp,
\* provider and message count of the conversation's _metadata.json.
C18_IndexConsistentCreatedOnly ==
    IndexConsistent({"id", "title", "created_at", "provider", "message_count"})

\* C18 witness: the root index of three conversations with different message
\* counts and of a project.
C18_Witness ==
    /\ pcGen = "done"
    /\ Len(conversations) = 3
    /\ Len(fs[INDEX_JSON][<<"json">>].conversations) = 3
    /\ Len(conversations[1].messages) # Len(conversations[2].messages)
    /\ "projects" \in DOMAIN fs[INDEX_JSON][<<"json">>]

\* json.loads of a document string: an escape gives back its character
RECURSIVE Unescape(_)
Unescape(s) ==
    IF s = <<>> THEN <<>>
    ELSE IF Head(s) = "\\u" THEN <<s[2]>> \o Unescape(Tail(Tail(s)))
    ELSE <<Head(s)>> \o Unescape(Tail(s))

\* json.loads of a string or null, and of a number
LoadStr(value) == IF value.k = "null" THEN None ELSE Unescape(value.v)

RECURSIVE LoadInt(_)
LoadInt(digits) ==
    IF digits = <<>> THEN 0
    ELSE 10 * LoadInt(SubSeq(digits, 1, Len(digits) - 1))
             + (CHOOSE d \in 0 .. 9 : DigitSeq[d + 1] = digits[Len(digits)])

\* datetime.fromisoformat of YYYY-MM-DDTHH:00:00, with +00:00 or without
LoadDatetime(value) ==
    LET text == LoadStr(value)
    IN  [y |-> LoadInt(SubSeq(text, 1, 4)), m |-> LoadInt(SubSeq(text, 6, 7)),
         d |-> LoadInt(SubSeq(text, 9, 10)), h |-> LoadInt(SubSeq(text, 12, 13)),
         tz |-> IF Len(text) = 19 THEN "naive"
                ELSE IF SubSeq(text, 20, Len(text)) = <<"+", "0", "0", ":", "0", "0">>
                THEN "utc" ELSE "other"]

\* C19: round trip: decoding the conversation _metadata.json documents, the
\* project _metadata.json documents and the root _index.json gives back each
\* conversation's identifier, title, created and updated timestamps and
\* message count, and each project's identifier, name, timestamps and
\* document count (every one of these fields that a document carries decodes
\* to the value of the model, and the _metadata.json documents carry all).
C19_RoundTrip ==
    pcGen = "done" =>
        LET index == fs[INDEX_JSON][<<"json">>]
        IN  /\ \A i \in DOMAIN conversations :
                  LET conv == conversations[i]
                      metadata == fs[dirnames[i]][METADATA_JSON][<<"json">>]
                      entry == index.conversations[i]
                  IN  /\ LoadStr(metadata.id) = conv.id
                      /\ LoadStr(metadata.title) = conv.title
                      /\ LoadDatetime(metadata.created_at) = conv.created_at
                      /\ LoadDatetime(metadata.updated_at) = conv.updated_at
                      /\ LoadInt(metadata.message_count.v) = Len(conv.messages)
                      /\ LoadStr(entry.id) = conv.id
                      /\ LoadStr(entry.title) = conv.title
                      /\ LoadDatetime(entry.created_at) = conv.created_at
                      /\ LoadInt(entry.message_count.v) = Len(conv.messages)
            /\ \A p \in DOMAIN projects :
                  LET proj == projects[p]
                      metadata == ProjectDirectory(p)[METADATA_JSON][<<"json">>]
                      entry == index.projects[p]
                  IN  /\ LoadStr(metadata.id) = proj.id
                      /\ LoadStr(metadata.name) = proj.name
                      /\ LoadDatetime(metadata.created_at) = proj.created_at
                      /\ LoadDatetime(metadata.updated_at) = proj.updated_at
                      /\ LoadInt(metadata.doc_count.v) = Len(proj.docs)
                      /\ LoadStr(entry.id) = proj.id
                      /\ LoadStr(entry.name) = proj.name
                      /\ LoadDatetime(entry.created_at) = proj.created_at
                      /\ LoadInt(entry.doc_count.v) = Len(proj.docs)

\* C19 witness: the documents of a conversation whose title has a character
\* outside ASCII, whose created timestamp has the UTC offset and whose
\* updated timestamp has none, and of a project with three documents.
C19_Witness ==
    /\ pcGen = "done"
    /\ \E i \in DOMAIN conversations :
          /\ conversations[i].title = <<"E_acute">>
          /\ fs[dirnames[i]][METADATA_JSON][<<"json">>].title.v = <<"\\u", "E_acute">>
          /\ conversations[i].created_at.tz = "utc"
          /\ conversations[i].updated_at.tz = "naive"
          /\ conversations[i].created_at # conversations[i].updated_at
    /\ \E p \in DOMAIN projects : Len(projects[p].docs) = 3

-----------------------------------------------------------------------------
(* Properties of the materialization *)

\* an entry of a tree is a leaf (it holds a document or a message, document
\* or memory content) or a nested mapping
IsLeafEntry(entry) == DOMAIN entry \in {{<<"json">>}, {<<"text">>}}

\* a leaf that holds a text
IsTextEntry(entry) == IsLeafEntry(entry) /\ entry # [kind \in {<<"text">>} |-> None]

\* every entry of the tree is a text leaf or a nested mapping of such
RECURSIVE TextLeavesAndMappings(_)
TextLeavesAndMappings(tree) ==
    \A name \in DOMAIN tree :
        IF IsLeafEntry(tree[name]) THEN IsTextEntry(tree[name])
        ELSE TextLeavesAndMappings(tree[name])

\* the number of leaves and of interior nodes below the root of a tree
RECURSIVE CountEntries(_, _)
CountEntries(tree, names) ==
    IF names = {} THEN [leaves |-> 0, interior |-> 0]
    ELSE LET name == CHOOSE n \in names : TRUE
             rest == CountEntries(tree, names \ {name})
             below == CountEntries(tree[name], DOMAIN tree[name])
         IN  IF IsLeafEntry(tree[name])
             THEN [leaves |-> rest.leaves + 1, interior |-> rest.interior]
             ELSE [leaves |-> rest.leaves + below.leaves,
                   interior |-> rest.interior + 1 + below.interior]

\* C20: materialization preserves the tree: every entry of the tree that
\* generate_fs_json returned is a text leaf or a nested mapping; after
\* _write_fs_recursive the disk holds one directory per interior node and
\* one file per leaf with the leaf's text, files_written and dirs_created are
\* the numbers of leaves and of interior nodes, and every message of the
\* model is a file on disk.
C20_MaterializationPreservesTree ==
    pcWrite = "done" =>
        /\ TextLeavesAndMappings(fs)
        /\ disk = fs
        /\ files_written = CountEntries(fs, DOMAIN fs).leaves
        /\ dirs_created = CountEntries(fs, DOMAIN fs).interior
        /\ \A i \in DOMAIN conversations :
              \A j \in DOMAIN conversations[i].messages :
                  /\ dirnames[i] \in DOMAIN disk
                  /\ ExpectedMessageName(conversations[i], j) \in DOMAIN disk[dirnames[i]]

-----------------------------------------------------------------------------
(* Properties of the project memories *)

\* the file name expected for the i-th entry of project_memories: the slug
\* of the name of the project with that identifier, or of the first 8
\* characters of the identifier, numbered from 2 after the first entry of
\* the same slug
ExpectedMemoryName(i) ==
    LET items == memories.project_memories
        Label(k) ==
            IF \E p \in DOMAIN projects : projects[p].id = items[k].key
            THEN projects[CHOOSE p \in DOMAIN projects : projects[p].id = items[k].key].name
            ELSE SubSeq(items[k].key, 1,
                        IF Len(items[k].key) < 8 THEN Len(items[k].key) ELSE 8)
        Slug(k) == slugify(Label(k), DEFAULT_MAX_LEN)
        earlier == Cardinality({k \in 1 .. (i - 1) : Slug(k) = Slug(i)})
    IN  IF earlier = 0 THEN Slug(i) \o DOT_MD
        ELSE Slug(i) \o UNDERSCORE \o DecStr(earlier + 1) \o DOT_MD

\* the directory _memories/projects of the tree
ProjectMemoriesDir == fs[MEMORIES_DIR][<<"p","r","o","j","e","c","t","s">>]

\* C26: when per-project memories exist, _memories/projects holds exactly
\* one leaf per entry of the project-memories mapping, and no entry
\* overwrites another; the leaf of an entry is named {slug}.md for the slug
\* of the name of the project with that identifier, or of the first 8
\* characters of the identifier when no project has it, with a _N suffix
\* before .md on name collisions.
C26_OneLeafPerProjectMemory ==
    (/\ pcGen = "done"
     /\ memories # NoMemories
     /\ memories.project_memories # <<>>) =>
        /\ Cardinality(DOMAIN ProjectMemoriesDir) = Len(memories.project_memories)
        /\ \A i \in DOMAIN memories.project_memories :
              /\ ExpectedMemoryName(i) \in DOMAIN ProjectMemoriesDir
              /\ ProjectMemoriesDir[ExpectedMemoryName(i)] =
                     TextLeaf(memories.project_memories[i].value)

\* C26 witness: three entries, two of them under identifiers that no
\* project has and that share their first 8 characters, the second of which
\* is stored under the numbered name beside the entry of the project
C26_Witness ==
    /\ pcGen = "done"
    /\ memories # NoMemories
    /\ Len(memories.project_memories) = 3
    /\ memories.project_memories[1].key = <<"p", "1">>
    /\ DOMAIN ProjectMemoriesDir =
          {<<"a",".","m","d">>, <<"a","b","c","d","e","f","g","h",".","m","d">>,
           <<"a","b","c","d","e","f","g","h","_","2",".","m","d">>}

-----------------------------------------------------------------------------
(* Properties of the reserved entries *)

\* the entries of the root, of _projects and of a project directory that
\* the generator writes itself
ReservedAtRoot == {INDEX_JSON, PROJECTS_DIR, MEMORIES_DIR}

\* C28: reserved entries are never clobbered: no conversation directory
\* name equals _index.json, _projects or _memories, so that the root holds
\* one entry per conversation beside its reserved entries; no project
\* directory name equals _index.json, so that _projects holds one entry per
\* project beside its index; and the _metadata.json leaf of a project
\* directory holds the project metadata, even when a document's filename is
\* _metadata.json.
C28_ReservedNotClobbered ==
    /\ \A i \in DOMAIN dirnames : dirnames[i] \notin ReservedAtRoot
    /\ pcGen = "done" =>
          /\ DOMAIN fs[INDEX_JSON] = {<<"json">>}
          /\ DOMAIN fs \ ReservedAtRoot = Range(dirnames)
          /\ projects # <<>> =>
                LET projects_dir == fs[PROJECTS_DIR]
                IN  /\ DOMAIN projects_dir[INDEX_JSON] = {<<"json">>}
                    /\ Cardinality(DOMAIN projects_dir) = Len(projects) + 1
                    /\ \A i \in DOMAIN projects :
                          LET name == ExpectedProjectDirname(i)
                          IN  /\ name # INDEX_JSON
                              /\ projects_dir[name][METADATA_JSON] =
                                     _generate_project_metadata(projects[i])

\* C28 witness: a finished tree of a conversation titled _projects and a
\* project named _index.json whose document has the filename
\* _metadata.json and is stored under the numbered name beside the project
\* metadata
C28_Witness ==
    /\ pcGen = "done"
    /\ conversations # <<>>
    /\ conversations[1].title = PROJECTS_DIR
    /\ projects # <<>>
    /\ projects[1].name = INDEX_JSON
    /\ projects[1].docs # <<>>
    /\ projects[1].docs[1].filename = METADATA_JSON
    /\ ProjectDirectory(1)[<<"_","m","e","t","a","d","a","t","a","_","2",".","j","s","o","n">>]
           = TextLeaf(projects[1].docs[1].content)
    /\ ProjectDirectory(1)[METADATA_JSON] = _generate_project_metadata(projects[1])

-----------------------------------------------------------------------------
(* Properties of detect and parse on one archive *)

\* what each entry of the ZIP parses to as a per-conversation file
FileResults ==
    [i \in DOMAIN archive.entries |->
        IF IsConversationFile(archive.entries[i].name)
        THEN _parse_conversation_file(archive.entries[i])
        ELSE NoneResult]

\* the archive holds a per-conversation file under conversations/ that
\* parses, so that detect returns true at its first test
DetectsThroughFiles ==
    /\ archive.kind = "zip"
    /\ detect(archive) = Value(TRUE)
    /\ \E i \in DOMAIN FileResults : FileResults[i].r = "value"

\* C29: detect and parse read the same source: for every archive on which
\* detect returns true because it contains valid per-conversation files
\* under conversations/, parse returns the conversations parsed from those
\* files, whatever other entries (a root conversations.json among them) the
\* archive contains.
C29_ParseReadsWhatDetectSaw ==
    (pcParse = "done" /\ DetectsThroughFiles) =>
        /\ outcome = "returned"
        /\ parsed = Successes(FileResults)

-----------------------------------------------------------------------------
(* Properties of the commands mount and export *)

\* the selected parser has returned an empty list to the command
ZeroConversations ==
    pcCmd = "parse" /\ pcParse = "done" /\ outcome = "returned" /\ parsed = <<>>

\* no step that comes after the parse in either command has run
NothingAfterParse ==
    /\ projects_result = NotCalled
    /\ pcGen = "idle" /\ conversations = <<>> /\ fs = EmptyDict
    /\ temp_dir = "none"
    /\ pcWrite = "idle" /\ disk = EmptyDict /\ files_written = 0 /\ dirs_created = 0
    /\ ffs_calls = 0

\* C27: in mount and in export, when the selected parser returns zero
\* conversations the command reports a warning and ends without a crash,
\* and no later step runs: the step after an empty result is the warning and
\* nothing else, the warning is given for an empty result only, and no step
\* follows it, so that no projects are parsed, no tree is generated, no
\* temporary directory is created, nothing is written and the external
\* mounter is never invoked.
C27_ZeroConversationsWarn ==
    [][/\ ZeroConversations => pcCmd' = "warned"
       /\ pcCmd' = "warned" => ZeroConversations /\ NothingAfterParse'
       /\ pcCmd # "warned"]_vars

\* C27 witness: mount with the claude provider on a ZIP that holds no
\* conversation has ended with the warning, after it created the mountpoint
C27_Witness ==
    /\ pcCmd = "warned"
    /\ command = "mount"
    /\ provider = "claude"
    /\ archive.kind = "zip"
    /\ mountpoint = "created"
    /\ NothingAfterParse

\* the command has ended with an error, a warning or an uncaught exception
EndedInError == pcCmd \in {"error", "warned", "crash"}

\* C30: every run of mount that creates a temporary directory and then ends
\* with an error (while the serialized tree is written, or in the external
\* mounter) has called cleanup_temp_dir on that directory before it exits: a
\* temporary directory outlives the command only when the mount succeeded.
C30_TempDirCleanedOnError ==
    (command = "mount" /\ EndedInError) => temp_dir # "exists"

-----------------------------------------------------------------------------
(* Properties of the sender table and of the timestamp parser *)

\* a message entry with identifier and parsable timestamp, whatever its sender
ValidButSender(msg) ==
    msg.k = "dict" /\ HasId(msg) /\ ParsableTs(Field(msg, "created_at"))

\* the role of the sender table for a message entry
RoleOf(msg) ==
    IF Field(msg, "sender") = JStr(HUMAN) THEN USER ELSE ASSISTANT

\* C22: every message returned by the Format-A parser has role user or
\* assistant: sender human maps to user, sender assistant to assistant, and
\* a message with any other or missing sender value is dropped from its
\* conversation, which is returned with its other messages.
C22_SenderRoles ==
    /\ \A k \in DOMAIN parsed : \A j \in DOMAIN parsed[k].messages :
          parsed[k].messages[j].role \in {USER, ASSISTANT}
    /\ (pcParse = "done" /\ HasJsonArray /\ Len(JsonArray) = 1) =>
          LET rec == JsonArray[1]
              msgs == Field(rec, "chat_messages")
          IN  (/\ rec.k = "dict" /\ Qualifies(rec)
               /\ ParsableTs(Field(rec, "updated_at"))
               /\ msgs.k = "list"
               /\ \A i \in DOMAIN msgs.v : ValidButSender(msgs.v[i])) =>
                  /\ Len(parsed) = 1
                  /\ LET kept == SelectSeq(msgs.v, ValidMessage)
                     IN  /\ Ids(parsed[1].messages) = Uuids(kept)
                         /\ \A j \in DOMAIN kept :
                                parsed[1].messages[j].role = RoleOf(kept[j])

\* the archive is a ZIP whose projects.json is an array
HasProjectsArray ==
    /\ archive.kind = "zip"
    /\ <<"projects.json">> \in Range(Names(archive))
    /\ Content(archive, <<"projects.json">>).k = "list"

ProjectsArray == Content(archive, <<"projects.json">>).v

\* the text with its final Z replaced by +00:00
ZAsOffset(text) == SubSeq(text, 1, Len(text) - 1) \o <<"+00:00">>

\* a text that ends in Z
EndsInZ(x) == x.k = "str" /\ x.v # <<>> /\ x.v[Len(x.v)] = "Z"

\* C23: timestamp parsing treats a trailing Z as +00:00: for every text t
\* ending in Z, parsing t gives what parsing t with the final Z replaced by
\* +00:00 gives, and for an ISO-8601 text that is a UTC-aware instant, the
\* creation timestamp of the project returned.
C23_TrailingZ ==
    (projects_result # NotCalled /\ HasProjectsArray) =>
        \A i \in DOMAIN ProjectsArray :
            LET rec == ProjectsArray[i]
                t == Field(rec, "created_at")
            IN  (rec.k = "dict" /\ EndsInZ(t)) =>
                    /\ _parse_timestamp(t) = _parse_timestamp(JStr(ZAsOffset(t.v)))
                    /\ t.v \in IsoTexts =>
                          /\ _parse_timestamp(t).r = "value"
                          /\ _parse_timestamp(t).v.tz = "utc"
                          /\ \A k \in DOMAIN projects_result.v :
                                projects_result.v[k].id = Field(rec, "uuid") =>
                                    projects_result.v[k].created_at =
                                        _parse_timestamp(JStr(ZAsOffset(t.v))).v

\* C23 witness: a project whose creation timestamp ends in Z was returned
\* with a UTC-aware creation instant
C23_Witness ==
    /\ projects_result # NotCalled /\ HasProjectsArray
    /\ Len(ProjectsArray) = 1
    /\ ProjectsArray[1].k = "dict"
    /\ Field(ProjectsArray[1], "created_at") = JStr(<<"D16T11", "Z">>)
    /\ Len(projects_result.v) = 1
    /\ projects_result.v[1].created_at = BodyDatetime("D16T11", "utc")

-----------------------------------------------------------------------------
(* Properties of parse_projects and parse_memories *)

\* a project record with a non-empty identifier and a parsable creation
\* timestamp
QualifiesProject(rec) == rec.k = "dict" /\ Qualifies(rec)

\* a document entry with a non-empty filename
HasFilename(doc) ==
    doc.k = "dict" /\ Field(doc, "filename").k = "str" /\ Field(doc, "filename").v # <<>>

\* the document entries of a project record
DocEntries(rec) ==
    IF Field(rec, "docs").k = "list" THEN Field(rec, "docs").v ELSE <<>>

\* C24: parse_projects returns, in input order, exactly the project records
\* that have a non-empty identifier and a parsable creation timestamp, with
\* description defaulting to the empty string; within a returned project a
\* document without a non-empty filename is dropped without dropping the
\* project, and a document without a creation timestamp is kept with its
\* creation timestamp set to the current time.
C24_ProjectsReturnedExactly ==
    (projects_result # NotCalled /\ HasProjectsArray) =>
        LET q == SelectSeq(ProjectsArray, QualifiesProject)
            returned == projects_result.v
        IN  /\ Ids(returned) = Uuids(q)
            /\ \A k \in DOMAIN q :
                  LET kept == SelectSeq(DocEntries(q[k]), HasFilename)
                  IN  /\ Field(q[k], "description") = ABSENT =>
                            returned[k].description = JStr(<<>>)
                      /\ Ids(returned[k].docs) = Uuids(kept)
                      /\ \A j \in DOMAIN kept :
                            Field(kept[j], "created_at") = ABSENT =>
                                /\ returned[k].docs[j].created_at.y = 2025
                                /\ returned[k].docs[j].created_at.tz = "utc"

\* the archive is a ZIP whose memories.json is a non-empty array
HasMemoriesRecord ==
    /\ archive.kind = "zip"
    /\ <<"memories.json">> \in Range(Names(archive))
    /\ Content(archive, <<"memories.json">>).k = "list"
    /\ Content(archive, <<"memories.json">>).v # <<>>

\* C25: parse_memories never reports an error to the caller: it returns
\* None when the memories file is absent, unreadable, not valid JSON, not an
\* array or an empty array, and otherwise a Memories value built from the
\* first record of the array, whatever the shape of that record.
C25_MemoriesNeverRaises ==
    memories_result # NotCalled =>
        /\ memories_result.r \in {"none", "value"}
        /\ memories_result.r = "value" <=> HasMemoriesRecord

-----------------------------------------------------------------------------
\* C21: detect_provider gives Format-A priority: it returns "claude"
\* whenever the Format-A detector returns true, even when the Format-B
\* detector returns true as well; it returns "chatgpt" only when the
\* Format-A detector returns false and the Format-B detector returns true,
\* and None when both return false.
C21_FormatAPriority ==
    (detect_outcome = "returned" /\ provider # "none") =>
        /\ detected => provider = "claude"
        /\ provider = "chatgpt" <=> (~detected /\ chatgpt_detect(archive))
        /\ (~detected /\ ~chatgpt_detect(archive)) => provider = "None"

\* both detectors answer true and detect_provider has returned
C21_Witness ==
    /\ detect_outcome = "returned" /\ detected
    /\ chatgpt_detect(archive)
    /\ provider = "claude"

====
